---- MODULE Spec2Model ----
(***************************************************************************)
(* Zenmark bookmark-tree engine: the tree utilities (treeUtils.ts), the    *)
(* import parser (bookmarkParser.ts) and the App handlers (App.tsx) that   *)
(* funnel every user action through them.                                  *)
(*                                                                         *)
(* Object identity.  JavaScript arrays and objects are compared by         *)
(* reference (===, !==).  Every array and every node object carries a      *)
(* field ref, the allocation epoch of the object: the objects of a         *)
(* snapshot handed to a call carry an epoch lower than the epoch g the     *)
(* call allocates with, so "a === b" is record equality including ref: an  *)
(* object allocated by the call never equals an object of its input, and   *)
(* an object passed through untouched keeps its ref.                       *)
(*                                                                         *)
(* Strings that the code inspects character by character (titles, urls,    *)
(* the exported HTML) are sequences of one-character strings; ids are      *)
(* opaque strings.                                                         *)
(***************************************************************************)
EXTENDS Integers, Sequences, FiniteSets, TLC

VARIABLES
    bookmarks,      \* App state: const [bookmarks, setBookmarks] = useState([])
    beforeUpload,   \* the forest handleUpload found when it last started
    last,           \* the handler that ran last, with what it was given
    isLoading,      \* App state: isLoading
    isInitialLoad,  \* App state: isInitialLoad
    error,          \* App state: error (TRUE when an error message is set)
    editingNodeId,  \* App state: editingNodeId
    upload,         \* the file handleUpload is awaiting the parse of, or NoFile
    nextId,         \* number of ids handed out so far by the id generator
    fnIn,           \* pure-function harness: the forest given to the call
    fnCall,         \* pure-function harness: the call and its arguments
    fnOut,          \* pure-function harness: the value returned
    timeoutRef,     \* useDebouncedEffect: the pending timeout and the state
                    \* its effect closes over, or NoTimeout
    stored,         \* IndexedDB: the value under BOOKMARKS_KEY, or NoValue
    saving,         \* the saveBookmarks calls whose db.put has not settled
    saved           \* the argument of the latest saveBookmarks call

vars == <<bookmarks, beforeUpload, last, isLoading, isInitialLoad, error,
          editingNodeId, upload, nextId, fnIn, fnCall, fnOut,
          timeoutRef, stored, saving, saved>>

appVars == <<bookmarks, beforeUpload, last, isLoading, isInitialLoad, error,
             editingNodeId, upload, nextId>>

fnVars == <<fnIn, fnCall, fnOut>>

storeVars == <<timeoutRef, stored, saving, saved>>

-----------------------------------------------------------------------------
(* Bounds *)

MaxNodes == 4       \* nodes in a forest given to a pure function
MaxDepth == 3       \* nesting depth of those forests
MaxIds == 2         \* ids the generator hands out in one run of the App
MaxLen == 4         \* characters of a title or url given to the serializer
MaxPuts == 2        \* saveBookmarks calls whose db.put has not settled

-----------------------------------------------------------------------------
(* Data model: types/bookmark.ts *)

Null == "null"
Undefined == "undefined"
UndefinedStr == <<"undefined">>     \* an absent string field (url?: string)

\* children?: BookmarkNode[] -- absent, or an array object
NoChildren == [def |-> FALSE, ref |-> 0, items |-> <<>>]

Arr(g, items) == [def |-> TRUE, ref |-> g, items |-> items]

\* interface BookmarkNode
BookmarkNode(id, title, url, children, parentId, g) ==
    [id |-> id, title |-> title, url |-> url, children |-> children,
     parentId |-> parentId, ref |-> g]

\* JavaScript truthiness of a string-or-undefined value
Truthy(s) == s # UndefinedStr /\ s # <<>>

IdName == <<"n1", "n2", "n3", "n4", "n5", "n6", "n7", "n8", "n9", "n10",
            "n11", "n12">>

ROOT_FOLDER_DROP_ID == "__ROOT__"

ALL_BOOKMARKS_ITEM_ID == "__ALL_BOOKMARKS__"

-----------------------------------------------------------------------------
(* General helpers on forests *)

RECURSIVE SeqSum(_)
SeqSum(s) == IF s = <<>> THEN 0 ELSE Head(s) + SeqSum(Tail(s))

RECURSIVE Flat(_)
\* concatenation of a sequence of sequences
Flat(ss) == IF ss = <<>> THEN <<>> ELSE Head(ss) \o Flat(Tail(ss))

RECURSIVE PreOrder(_)
\* every node object of an array, depth first, pre-order
PreOrder(nodes) ==
    Flat([i \in 1..Len(nodes.items) |->
            <<nodes.items[i]>> \o
            (IF nodes.items[i].children.def
                THEN PreOrder(nodes.items[i].children) ELSE <<>>)])

Range(s) == {s[i] : i \in 1..Len(s)}

IdsOf(nodes) == {n.id : n \in Range(PreOrder(nodes))}

RECURSIVE Places(_, _)
\* where every node sits: <<id, id of the containing folder, index>>
Places(nodes, owner) ==
    UNION {{<<nodes.items[i].id, owner, i>>} \cup
           (IF nodes.items[i].children.def
               THEN Places(nodes.items[i].children, nodes.items[i].id)
               ELSE {}) : i \in 1..Len(nodes.items)}

RECURSIVE SiblingLists(_, _)
\* the ordered id list of every children sequence, keyed by its owner
SiblingLists(nodes, owner) ==
    {<<owner, [i \in 1..Len(nodes.items) |-> nodes.items[i].id]>>} \cup
    UNION {IF nodes.items[i].children.def
              THEN SiblingLists(nodes.items[i].children, nodes.items[i].id)
              ELSE {} : i \in 1..Len(nodes.items)}

RECURSIVE Settle(_)
\* the same forest as a snapshot: every object gets epoch 0
Settle(nodes) ==
    IF ~nodes.def THEN nodes
    ELSE Arr(0, [i \in 1..Len(nodes.items) |->
                    [nodes.items[i] EXCEPT !.ref = 0,
                                           !.children = Settle(@)]])

-----------------------------------------------------------------------------
(* treeUtils.ts *)

RECURSIVE findLoop(_, _, _)
findLoop(nodes, id, i) ==
    IF i > Len(nodes.items) THEN <<>>
    ELSE LET node == nodes.items[i]
             foundInChildren ==
                 IF node.children.def /\ Len(node.children.items) > 0
                    THEN findLoop(node.children, id, 1) ELSE <<>>
         IN  IF node.id = id THEN <<node>>
             ELSE IF foundInChildren # <<>> THEN foundInChildren
             ELSE findLoop(nodes, id, i + 1)

\* findNodeById: <<node>> when found, <<>> for null
findNodeById(nodes, id) == findLoop(nodes, id, 1)

\* a removal that filters the given array only, without descending
Mut_removeNoRecurse(nodes, id, g) ==
    Arr(g, SelectSeq(nodes.items, LAMBDA n : n.id # id))

RECURSIVE removeNodeRecursive(_, _, _)
\* nodes.filter(node => node.id !== id).map(node => ...): filter and map
\* each allocate an array, whether or not anything was removed
removeNodeRecursive(nodes, id, g) ==
    LET kept == SelectSeq(nodes.items, LAMBDA n : n.id # id)
    IN  Arr(g, [i \in 1..Len(kept) |->
                 LET node == kept[i]
                     newChildren == removeNodeRecursive(node.children, id, g)
                 IN  IF node.children.def /\ newChildren # node.children
                        THEN [node EXCEPT !.children = newChildren, !.ref = g]
                        ELSE node])

removeNodeById(nodes, id, g) == removeNodeRecursive(nodes, id, g)

RECURSIVE removeLoopFlagged(_, _, _, _, _, _, _)
\* the flagged variant's for-loop: treeCopy is <<>> while it is null
removeLoopFlagged(nodes, id, g, i, treeCopy, removed, resultNodes) ==
    IF i > Len(nodes.items)
       THEN [tree |-> IF treeCopy # <<>> THEN treeCopy[1]
                                          ELSE Arr(g, resultNodes),
             removed |-> removed]
    ELSE LET node == nodes.items[i]
             before == SubSeq(nodes.items, 1, i - 1)
             result == removeLoopFlagged(node.children, id, g, 1, <<>>,
                                         FALSE, <<>>)
             changed == node.children.def /\ result.removed
             processedNode ==
                 IF changed
                    THEN [node EXCEPT !.children = result.tree, !.ref = g]
                    ELSE node
         IN  IF node.id = id
                THEN removeLoopFlagged(nodes, id, g, i + 1,
                         IF treeCopy = <<>> THEN <<Arr(g, before)>>
                                            ELSE treeCopy,
                         TRUE, resultNodes)
             ELSE IF treeCopy # <<>>
                THEN removeLoopFlagged(nodes, id, g, i + 1,
                         <<Arr(g, Append(treeCopy[1].items, processedNode))>>,
                         removed \/ changed, resultNodes)
             ELSE IF processedNode # node
                THEN removeLoopFlagged(nodes, id, g, i + 1,
                         <<Arr(g, Append(before, processedNode))>>,
                         TRUE, resultNodes)
             ELSE removeLoopFlagged(nodes, id, g, i + 1, treeCopy,
                         removed \/ changed, Append(resultNodes, node))

\* removeNodeById of the variant that reports whether something was removed
removeNodeByIdFlagged(nodes, id, g) ==
    removeLoopFlagged(nodes, id, g, 1, <<>>, FALSE, <<>>).tree

InsertAt(s, i, x) == SubSeq(s, 1, i - 1) \o <<x>> \o SubSeq(s, i, Len(s))

\* an 'inside' insertion that puts newNode in front of the children
Mut_insertInsideFirst(node, newNode, g) ==
    [node EXCEPT !.ref = g,
                 !.children = Arr(g, <<newNode>> \o node.children.items)]

\* const targetNode = { ...node };
\* targetNode.children = targetNode.children ? [...children, newNode] : [newNode]
insertInside(node, newNode, g) ==
    [node EXCEPT !.ref = g,
                 !.children = Arr(g, Append(node.children.items, newNode))]

RECURSIVE insertLoop(_, _, _, _, _, _)
\* the for-loop of insertNodeRecursive, from index i on, nothing inserted yet
insertLoop(nodes, targetId, newNode, position, g, i) ==
    IF i > Len(nodes.items) THEN nodes      \* inserted is false: return nodes
    ELSE LET node == nodes.items[i]
             updatedChildren ==
                 insertLoop(node.children, targetId, newNode, position, g, 1)
         IN  IF node.id = targetId
                THEN IF position = "inside"
                        THEN Arr(g, [nodes.items EXCEPT
                                       ![i] = insertInside(node, newNode, g)])
                     ELSE IF position = "before"
                        THEN Arr(g, InsertAt(nodes.items, i, newNode))
                     ELSE Arr(g, InsertAt(nodes.items, i + 1, newNode))
             ELSE IF node.children.def /\ updatedChildren # node.children
                THEN Arr(g, [nodes.items EXCEPT
                               ![i] = [node EXCEPT !.children = updatedChildren,
                                                   !.ref = g]])
             ELSE insertLoop(nodes, targetId, newNode, position, g, i + 1)

\* an insertNodeRecursive that returns its copy newNodes in every case
Mut_insertNodeRecursiveCopy(nodes, targetId, newNode, position, g) ==
    LET result == insertLoop(nodes, targetId, newNode, position, g, 1)
    IN  IF result = nodes THEN Arr(g, nodes.items) ELSE result

insertNodeRecursive(nodes, targetId, newNode, position, g) ==
    insertLoop(nodes, targetId, newNode, position, g, 1)

\* an insertNode that would write the parentId of newNode itself
Mut_insertNodeSetsParent(nodes, targetId, newNode, position, g) ==
    IF position = "root" \/ targetId = Null
       THEN Arr(g, <<[newNode EXCEPT !.parentId = Null]>> \o nodes.items)
       ELSE insertNodeRecursive(nodes, targetId,
                                [newNode EXCEPT !.parentId = targetId],
                                position, g)

insertNode(nodes, targetId, newNode, position, g) ==
    IF position = "root" \/ targetId = Null
       THEN Arr(g, <<newNode>> \o nodes.items)
       ELSE insertNodeRecursive(nodes, targetId, newNode, position, g)

\* String.prototype.toLowerCase on the letters of the Latin alphabet
UpperCase == <<"A", "B", "C", "D", "E", "F", "G", "H", "I", "J", "K", "L", "M",
               "N", "O", "P", "Q", "R", "S", "T", "U", "V", "W", "X", "Y", "Z">>

LowerCase == <<"a", "b", "c", "d", "e", "f", "g", "h", "i", "j", "k", "l", "m",
               "n", "o", "p", "q", "r", "s", "t", "u", "v", "w", "x", "y", "z">>

toLowerCase(str) ==
    [i \in 1..Len(str) |->
        IF \E k \in 1..Len(UpperCase) : UpperCase[k] = str[i]
           THEN LowerCase[CHOOSE k \in 1..Len(UpperCase) : UpperCase[k] = str[i]]
           ELSE str[i]]

\* String.prototype.includes
includes(str, search) ==
    \E i \in 0..(Len(str) - Len(search)) :
        SubSeq(str, i + 1, i + Len(search)) = search

\* titleMatch || urlMatch || notesMatch of filterBookmarkTree; no node of
\* the program carries notes, so notesMatch is false
selfMatch(node, lowerCaseQuery) ==
    LET isFolder == node.children.def
        titleMatch == includes(toLowerCase(node.title), lowerCaseQuery)
        urlMatch == /\ ~isFolder
                    /\ node.url # UndefinedStr
                    /\ includes(toLowerCase(node.url), lowerCaseQuery)
    IN  titleMatch \/ urlMatch

\* a loop body that keeps a node on its own match only
Mut_filterNodeSelfOnly(node, childResult, lowerCaseQuery, g) ==
    LET isFolder == node.children.def
        filteredChildren == IF isFolder THEN childResult.filteredNodes
                                        ELSE Arr(g, <<>>)
    IN  [keep |-> selfMatch(node, lowerCaseQuery),
         node |-> [node EXCEPT !.ref = g,
                               !.children = IF isFolder THEN filteredChildren
                                                        ELSE NoChildren],
         ids  |-> IF isFolder
                     THEN {node.id} \cup childResult.matchingFolderIds
                     ELSE {}]

\* the body of the for loop of filterBookmarkTree for one node, given the
\* result of the recursive call on its children: whether the node is pushed,
\* the copy that is pushed, and the ids it adds to matchingFolderIds
filterNode(node, childResult, lowerCaseQuery, g) ==
    LET isFolder == node.children.def
        filteredChildren == IF isFolder THEN childResult.filteredNodes
                                        ELSE Arr(g, <<>>)
        childMatchingFolderIds == IF isFolder THEN childResult.matchingFolderIds
                                              ELSE {}
        childrenMatch == Len(filteredChildren.items) > 0
    IN  [keep |-> selfMatch(node, lowerCaseQuery) \/ childrenMatch,
         node |-> [node EXCEPT !.ref = g,
                               !.children = IF isFolder THEN filteredChildren
                                                        ELSE NoChildren],
         ids  |-> IF isFolder THEN {node.id} \cup childMatchingFolderIds
                              ELSE {}]

RECURSIVE Mut_filterTopFolderIds(_, _, _)
\* a filter that reports the retained folders of the given array only
Mut_filterTopFolderIds(nodes, query, g) ==
    IF query = <<>>
       THEN [filteredNodes |-> nodes, matchingFolderIds |-> {}]
       ELSE LET each == [i \in 1..Len(nodes.items) |->
                           filterNode(nodes.items[i],
                               IF nodes.items[i].children.def
                                  THEN Mut_filterTopFolderIds(
                                           nodes.items[i].children, query, g)
                                  ELSE [filteredNodes |-> Arr(g, <<>>),
                                        matchingFolderIds |-> {}],
                               toLowerCase(query), g)]
                kept == SelectSeq(each, LAMBDA r : r.keep)
            IN  [filteredNodes |-> Arr(g, [i \in 1..Len(kept) |-> kept[i].node]),
                 matchingFolderIds |->
                     {kept[i].node.id : i \in {k \in 1..Len(kept) :
                                                  kept[k].node.children.def}}]

RECURSIVE filterBookmarkTree(_, _, _)
filterBookmarkTree(nodes, query, g) ==
    IF query = <<>>
       THEN [filteredNodes |-> nodes, matchingFolderIds |-> {}]
       ELSE LET each == [i \in 1..Len(nodes.items) |->
                           filterNode(nodes.items[i],
                               IF nodes.items[i].children.def
                                  THEN filterBookmarkTree(
                                           nodes.items[i].children, query, g)
                                  ELSE [filteredNodes |-> Arr(g, <<>>),
                                        matchingFolderIds |-> {}],
                               toLowerCase(query), g)]
                kept == SelectSeq(each, LAMBDA r : r.keep)
            IN  [filteredNodes |-> Arr(g, [i \in 1..Len(kept) |-> kept[i].node]),
                 matchingFolderIds |->
                     UNION {kept[i].ids : i \in 1..Len(kept)}]

-----------------------------------------------------------------------------
(* Export serializer: escapeHtml, generateDtElements, generateBookmarkHtml *)

\* the replacement escapeHtml makes for one character; & is handled by the
\* first replace, so the & of an entity written by a later replace is final
escapeChar(c) ==
    IF c = "&" THEN <<"&", "a", "m", "p", ";">>
    ELSE IF c = "<" THEN <<"&", "l", "t", ";">>
    ELSE IF c = ">" THEN <<"&", "g", "t", ";">>
    ELSE IF c = "\"" THEN <<"&", "q", "u", "o", "t", ";">>
    ELSE IF c = "'" THEN <<"&", "#", "0", "3", "9", ";">>
    ELSE <<c>>

\* an escapeHtml whose replace of & runs after the other four
Mut_escapeHtmlAmpLast(str) ==
    Flat([i \in 1..Len(str) |->
            IF str[i] = "&" THEN escapeChar("&")
            ELSE Flat([k \in 1..Len(escapeChar(str[i])) |->
                          escapeChar(escapeChar(str[i])[k])])])

escapeHtml(str) == Flat([i \in 1..Len(str) |-> escapeChar(str[i])])

\* The exported text as the sequence of its tags and text runs; the text of
\* a run and the value of an attribute are kept as written (escaped).  The
\* line breaks and the indentation between tags are left out.
StartTag(tag, href) == [t |-> "start", tag |-> tag, href |-> href, s |-> <<>>]

EndTag(tag) == [t |-> "end", tag |-> tag, href |-> UndefinedStr, s |-> <<>>]

TextRun(s) == [t |-> "text", tag |-> "#text", href |-> UndefinedStr, s |-> s]

\* the body of nodes.forEach in generateDtElements; rec[i] is the text the
\* recursive call returns for the children of node i
generateDtEach(nodes, rec) ==
    Flat([i \in 1..Len(nodes.items) |->
        LET node == nodes.items[i]
        IN  IF Truthy(node.url)
               THEN <<StartTag("DT", UndefinedStr),
                      StartTag("A", escapeHtml(node.url)),
                      TextRun(escapeHtml(node.title)), EndTag("A"),
                      EndTag("DT")>>
            ELSE IF node.children.def
               THEN <<StartTag("DT", UndefinedStr),
                      StartTag("H3", UndefinedStr),
                      TextRun(escapeHtml(node.title)), EndTag("H3"),
                      EndTag("DT"),
                      StartTag("DL", UndefinedStr),
                      StartTag("P", UndefinedStr)>>
                    \o rec[i] \o
                    <<EndTag("DL"), StartTag("P", UndefinedStr)>>
            ELSE <<>>])

RECURSIVE generateDtElements(_)
generateDtElements(nodes) ==
    generateDtEach(nodes,
        [i \in 1..Len(nodes.items) |->
            IF nodes.items[i].children.def
               THEN generateDtElements(nodes.items[i].children) ELSE <<>>])

generateBookmarkHtml(forest) ==
    <<StartTag("H1", UndefinedStr), TextRun(<<"B">>), EndTag("H1"),
      StartTag("DL", UndefinedStr), StartTag("P", UndefinedStr)>>
    \o generateDtElements(forest) \o
    <<EndTag("DL"), StartTag("P", UndefinedStr)>>

-----------------------------------------------------------------------------
(* DOMParser.parseFromString(htmlContent, 'text/html'): the HTML tree      *)
(* construction rules for the tags of a bookmark file                      *)

RECURSIVE decodeFrom(_, _)
\* character references in text and attribute values, from position i
decodeFrom(raw, i) ==
    LET at(w) == /\ i + Len(w) - 1 <= Len(raw)
                 /\ SubSeq(raw, i, i + Len(w) - 1) = w
    IN  IF i > Len(raw) THEN <<>>
        ELSE IF at(<<"&", "a", "m", "p", ";">>)
           THEN <<"&">> \o decodeFrom(raw, i + 5)
        ELSE IF at(<<"&", "l", "t", ";">>)
           THEN <<"<">> \o decodeFrom(raw, i + 4)
        ELSE IF at(<<"&", "g", "t", ";">>)
           THEN <<">">> \o decodeFrom(raw, i + 4)
        ELSE IF at(<<"&", "q", "u", "o", "t", ";">>)
           THEN <<"\"">> \o decodeFrom(raw, i + 6)
        ELSE IF at(<<"&", "#", "0", "3", "9", ";">>)
           THEN <<"'">> \o decodeFrom(raw, i + 6)
        ELSE <<raw[i]>> \o decodeFrom(raw, i + 1)

decodeEntities(raw) == IF raw = UndefinedStr THEN raw ELSE decodeFrom(raw, 1)

\* a DOM element: its tag, its href attribute, the text directly in it and
\* its child elements
Element(tag, href) == [tag |-> tag, href |-> href, text |-> <<>>, kids |-> <<>>]

\* pop the current node off the stack of open elements
PopOne(stack) ==
    LET n == Len(stack)
    IN  SubSeq(stack, 1, n - 2) \o
        <<[stack[n - 1] EXCEPT !.kids = Append(@, stack[n])]>>

RECURSIVE PopUntil(_, _)
\* pop until an element with one of the tags has been popped
PopUntil(stack, tags) ==
    IF stack[Len(stack)].tag \in tags THEN PopOne(stack)
    ELSE PopUntil(PopOne(stack), tags)

InScope(stack, tags) == \E i \in 2..Len(stack) : stack[i].tag \in tags

ClosePElement(stack) ==
    IF InScope(stack, {"P"}) THEN PopUntil(stack, {"P"}) ELSE stack

\* start tag "dt": walk down the stack; an open dt is closed, a special
\* element other than p stops the walk
CloseOpenDt(stack) ==
    LET stops == {i \in 2..Len(stack) : stack[i].tag \in {"DT", "DL", "H1", "H3"}}
        top == CHOOSE i \in stops : \A j \in stops : j <= i
    IN  IF stops # {} /\ stack[top].tag = "DT"
           THEN PopUntil(stack, {"DT"}) ELSE stack

RECURSIVE TreeBuild(_, _, _)
\* the stack of open elements after the tokens from i on; stack[1] is body
TreeBuild(tokens, i, stack) ==
    IF i > Len(tokens)
       THEN IF Len(stack) = 1 THEN stack
            ELSE TreeBuild(tokens, i, PopOne(stack))
    ELSE LET tok == tokens[i]
             n == Len(stack)
             push(st) == Append(st, Element(tok.tag, decodeEntities(tok.href)))
         IN  IF tok.t = "text"
                THEN TreeBuild(tokens, i + 1,
                        [stack EXCEPT ![n].text = @ \o decodeEntities(tok.s)])
             ELSE IF tok.t = "start"
                THEN IF tok.tag = "DT"
                        THEN TreeBuild(tokens, i + 1,
                                push(ClosePElement(CloseOpenDt(stack))))
                     ELSE IF tok.tag \in {"DL", "P", "H1", "H3"}
                        THEN TreeBuild(tokens, i + 1, push(ClosePElement(stack)))
                     ELSE TreeBuild(tokens, i + 1, push(stack))
             ELSE IF InScope(stack, {tok.tag})
                THEN TreeBuild(tokens, i + 1, PopUntil(stack, {tok.tag}))
             ELSE TreeBuild(tokens, i + 1, stack)

\* the body element of the parsed document
parseFromString(tokens) == TreeBuild(tokens, 1, <<Element("BODY", UndefinedStr)>>)[1]

-----------------------------------------------------------------------------
(* Import parser: bookmarkParser.ts *)

\* const MAX_BOOKMARKS = 11000, scaled down so that a document can exceed it
MAX_BOOKMARKS == 2

UntitledBookmark ==
    <<"U", "n", "t", "i", "t", "l", "e", "d", " ", "B", "o", "o", "k", "m", "a", "r", "k">>

UntitledFolder ==
    <<"U", "n", "t", "i", "t", "l", "e", "d", " ", "F", "o", "l", "d", "e", "r">>

IsSpace(c) == c \in {" ", "\n", "\t"}

RECURSIVE TrimStart(_)
TrimStart(str) ==
    IF str # <<>> /\ IsSpace(Head(str)) THEN TrimStart(Tail(str)) ELSE str

RECURSIVE TrimEnd(_)
TrimEnd(str) ==
    IF str # <<>> /\ IsSpace(str[Len(str)])
       THEN TrimEnd(SubSeq(str, 1, Len(str) - 1)) ELSE str

\* String.prototype.trim
Trim(str) == TrimEnd(TrimStart(str))

\* element.querySelector(':scope > TAG'): <<element>> or <<>> for null
ScopeChild(element, tag) ==
    LET hits == SelectSeq(element.kids, LAMBDA e : e.tag = tag)
    IN  IF hits = <<>> THEN <<>> ELSE <<hits[1]>>

RECURSIVE parseDlLoop(_, _, _, _, _, _)
\* the for-loop of parseDl from child i on; count is counter.count, nodes
\* the array built so far, idBase the ids the generator handed out before
\* this parse.  thrown is set when BookmarkLimitExceededError is thrown.
parseDlLoop(dlElement, i, count, parentId, nodes, idBase) ==
    IF i > Len(dlElement.kids)
       THEN [nodes |-> Arr(1, nodes), count |-> count, thrown |-> FALSE]
    ELSE LET element == dlElement.kids[i]
             anchor == ScopeChild(element, "A")
             header == ScopeChild(element, "H3")
             nodeId == IdName[idBase + count + 1]
             potentialDl == ScopeChild(element, "DL")
             childResult ==
                 IF potentialDl # <<>>
                    THEN parseDlLoop(potentialDl[1], 1, count + 1, nodeId,
                                     <<>>, idBase)
                    ELSE [nodes |-> Arr(1, <<>>), count |-> count + 1,
                          thrown |-> FALSE]
         IN  IF element.tag # "DT"
                THEN parseDlLoop(dlElement, i + 1, count, parentId, nodes,
                                 idBase)
             ELSE IF count >= MAX_BOOKMARKS
                THEN [nodes |-> Arr(1, nodes), count |-> count,
                      thrown |-> TRUE]
             ELSE IF anchor # <<>>
                THEN parseDlLoop(dlElement, i + 1, count + 1, parentId,
                        Append(nodes,
                          BookmarkNode(nodeId,
                            IF Trim(anchor[1].text) # <<>>
                               THEN Trim(anchor[1].text) ELSE UntitledBookmark,
                            IF Truthy(anchor[1].href)
                               THEN anchor[1].href ELSE UndefinedStr,
                            NoChildren, parentId, 1)),
                        idBase)
             ELSE IF header # <<>>
                THEN IF childResult.thrown THEN childResult
                     ELSE parseDlLoop(dlElement, i + 1, childResult.count,
                            parentId,
                            Append(nodes,
                              BookmarkNode(nodeId,
                                IF Trim(header[1].text) # <<>>
                                   THEN Trim(header[1].text)
                                   ELSE UntitledFolder,
                                UndefinedStr, childResult.nodes, parentId, 1)),
                            idBase)
             ELSE parseDlLoop(dlElement, i + 1, count, parentId, nodes, idBase)

parseDl(dlElement, count, parentId, idBase) ==
    parseDlLoop(dlElement, 1, count, parentId, <<>>, idBase)

RECURSIVE AllElements(_)
\* the descendants of an element in document order
AllElements(element) ==
    Flat([i \in 1..Len(element.kids) |->
            <<element.kids[i]>> \o AllElements(element.kids[i])])

\* parseBookmarkHtml on the parsed document: body > dl, else the first dl,
\* else it throws
parseBookmarkHtml(body, idBase) ==
    LET mainDl == ScopeChild(body, "DL")
        fallbackDl == SelectSeq(AllElements(body), LAMBDA e : e.tag = "DL")
    IN  IF mainDl # <<>> THEN parseDl(mainDl[1], 0, Null, idBase)
        ELSE IF fallbackDl # <<>> THEN parseDl(fallbackDl[1], 0, Null, idBase)
        ELSE [nodes |-> Arr(1, <<>>), count |-> 0, thrown |-> TRUE]

\* parseBookmarkFile: the promise resolves (thrown = FALSE) with the forest,
\* or rejects when the file cannot be read, is empty, or the parse throws
parseBookmarkFile(file, idBase) ==
    IF ~file.readable \/ file.tokens = <<>>
       THEN [nodes |-> Arr(1, <<>>), count |-> 0, thrown |-> TRUE]
       ELSE parseBookmarkHtml(parseFromString(file.tokens), idBase)

-----------------------------------------------------------------------------
(* App.tsx: what the panels render, and the state updaters of the handlers *)

RECURSIVE extractFolderTree(_, _)
\* nodes.filter(node => !!node.children).map(folder => ({...folder,
\* children: extractFolderTree(folder.children)})): folder-only copies
extractFolderTree(nodes, g) ==
    LET folders == SelectSeq(nodes.items, LAMBDA n : n.children.def)
    IN  Arr(g, [i \in 1..Len(folders) |->
                 [folders[i] EXCEPT !.ref = g,
                                    !.children = extractFolderTree(@, g)]])

\* the bookmark items of the right panel for the selected folder
rightPanelNodes(forest, selectedFolderId) ==
    LET found == findNodeById(forest, selectedFolderId)
        children ==
            IF selectedFolderId = Null THEN forest.items
            ELSE IF found # <<>> /\ found[1].children.def
               THEN found[1].children.items
            ELSE <<>>
    IN  SelectSeq(children, LAMBDA n : n.url # UndefinedStr)

\* an exchange of the two elements instead of a move
Mut_arraySwap(array, from, to) ==
    [array EXCEPT ![from] = array[to], ![to] = array[from]]

\* arrayMove of @dnd-kit/sortable: take the element at index from out and
\* put it back at index to
arrayMove(array, from, to) ==
    InsertAt(SubSeq(array, 1, from - 1) \o SubSeq(array, from + 1, Len(array)),
             to, array[from])

\* array.findIndex(node => node.id === id [&& ok(node)]): 0 stands for -1
findIndex(array, id, folderOnly) ==
    LET hits == {i \in 1..Len(array) :
                    array[i].id = id /\ (folderOnly => ~Truthy(array[i].url))}
    IN  IF hits = {} THEN 0 ELSE CHOOSE i \in hits : \A j \in hits : i <= j

\* a move without the guard
Mut_cycleCheck(activeType, position, finalTargetId, nodeToMove) == FALSE

\* the guard of the move: a folder dropped inside itself or a descendant
cycleCheck(activeType, position, finalTargetId, nodeToMove) ==
    /\ activeType = "folder"
    /\ position = "inside"
    /\ finalTargetId # Null
    /\ findNodeById(Arr(1, <<nodeToMove>>), finalTargetId) # <<>>

\* a copy of nodeToMove that keeps the parentId it had
Mut_updatedNodeToMove(nodeToMove, finalTargetId, g) ==
    [nodeToMove EXCEPT !.ref = g]

\* const updatedNodeToMove = { ...nodeToMove, parentId: finalTargetId }
updatedNodeToMove(nodeToMove, finalTargetId, g) ==
    [nodeToMove EXCEPT !.parentId = finalTargetId, !.ref = g]

\* a move that inserts into the forest that still holds the node
Mut_moveNodeKeepsSource(currentBookmarks, nodeToMove, activeType, overId) ==
    LET position == IF overId = ROOT_FOLDER_DROP_ID THEN "root" ELSE "inside"
        finalTargetId == IF overId = ROOT_FOLDER_DROP_ID THEN Null ELSE overId
    IN  IF cycleCheck(activeType, position, finalTargetId, nodeToMove)
           THEN currentBookmarks
           ELSE insertNode(currentBookmarks, finalTargetId,
                           updatedNodeToMove(nodeToMove, finalTargetId, 2),
                           position, 2)

\* the updater of the move scenario of handleDragEnd
moveNode(currentBookmarks, nodeToMove, activeType, overId) ==
    LET treeWithoutNode == removeNodeById(currentBookmarks, nodeToMove.id, 1)
        position == IF overId = ROOT_FOLDER_DROP_ID THEN "root" ELSE "inside"
        finalTargetId == IF overId = ROOT_FOLDER_DROP_ID THEN Null ELSE overId
    IN  IF cycleCheck(activeType, position, finalTargetId, nodeToMove)
           THEN currentBookmarks
           ELSE insertNode(treeWithoutNode, finalTargetId,
                           updatedNodeToMove(nodeToMove, finalTargetId, 2),
                           position, 2)

RECURSIVE reorderRecursiveMap(_, _, _, _, _)
\* nodes.map(...) of the nested case of handleReorderFolders
reorderRecursiveMap(nodes, parentId, activeId, overId, g) ==
    Arr(g, [i \in 1..Len(nodes.items) |->
        LET node == nodes.items[i]
            childFolders ==
                SelectSeq(node.children.items, LAMBDA c : ~Truthy(c.url))
            bookmarkChildren ==
                SelectSeq(node.children.items, LAMBDA c : Truthy(c.url))
            oldIndex == findIndex(childFolders, activeId, FALSE)
            newIndex == findIndex(childFolders, overId, FALSE)
            updatedChildren ==
                reorderRecursiveMap(node.children, parentId, activeId, overId, g)
        IN  IF node.id = parentId /\ node.children.def
               THEN IF oldIndex = 0 \/ newIndex = 0 THEN node
                    ELSE [node EXCEPT
                            !.ref = g,
                            !.children =
                                Arr(g, arrayMove(childFolders, oldIndex, newIndex)
                                       \o bookmarkChildren)]
            ELSE IF node.children.def /\ updatedChildren # node.children
               THEN [node EXCEPT !.children = updatedChildren, !.ref = g]
            ELSE node])

\* the updater of handleReorderFolders
handleReorderFolders(currentBookmarks, activeId, overId, g) ==
    LET activeNode == findNodeById(currentBookmarks, activeId)
        overNode == findNodeById(currentBookmarks, overId)
        oldIndex == findIndex(currentBookmarks.items, activeId, TRUE)
        newIndex == findIndex(currentBookmarks.items, overId, TRUE)
    IN  IF activeNode = <<>> \/ overNode = <<>> THEN currentBookmarks
        ELSE IF activeNode[1].parentId # overNode[1].parentId
           THEN currentBookmarks
        ELSE IF activeNode[1].parentId = Null
           THEN IF oldIndex = 0 \/ newIndex = 0 THEN currentBookmarks
                ELSE Arr(g, arrayMove(currentBookmarks.items, oldIndex, newIndex))
        ELSE reorderRecursiveMap(currentBookmarks, activeNode[1].parentId,
                                 activeId, overId, g)

RECURSIVE updateTreeRecursively(_, _, _, _, _)
\* nodes.map(...) of the folder case of handleReorderBookmarks
updateTreeRecursively(nodes, parentId, activeId, overId, g) ==
    Arr(g, [i \in 1..Len(nodes.items) |->
        LET node == nodes.items[i]
            oldIndex == findIndex(node.children.items, activeId, FALSE)
            newIndex == findIndex(node.children.items, overId, FALSE)
            updatedChildren ==
                updateTreeRecursively(node.children, parentId, activeId,
                                      overId, g)
        IN  IF node.id = parentId /\ node.children.def
               THEN IF oldIndex = 0 \/ newIndex = 0 THEN node
                    ELSE [node EXCEPT
                            !.ref = g,
                            !.children =
                                Arr(g, arrayMove(node.children.items,
                                                 oldIndex, newIndex))]
            ELSE IF node.children.def /\ updatedChildren # node.children
               THEN [node EXCEPT !.children = updatedChildren, !.ref = g]
            ELSE node])

\* a reorder that does not compare the parents of the two nodes
Mut_handleReorderBookmarksAnyParent(currentBookmarks, activeId, overId, g) ==
    LET activeNode == findNodeById(currentBookmarks, activeId)
    IN  IF activeNode = <<>> \/ activeNode[1].parentId = Null
           THEN Arr(g, currentBookmarks.items)
           ELSE updateTreeRecursively(currentBookmarks, activeNode[1].parentId,
                                      activeId, overId, g)

\* the updater of handleReorderBookmarks
handleReorderBookmarks(currentBookmarks, activeId, overId, g) ==
    LET activeNode == findNodeById(currentBookmarks, activeId)
        overNode == findNodeById(currentBookmarks, overId)
        oldIndex == findIndex(currentBookmarks.items, activeId, FALSE)
        newIndex == findIndex(currentBookmarks.items, overId, FALSE)
    IN  IF activeNode = <<>> \/ overNode = <<>> THEN currentBookmarks
        ELSE IF activeNode[1].parentId # overNode[1].parentId
           THEN currentBookmarks
        ELSE IF activeNode[1].parentId = Null
           THEN IF oldIndex = 0 \/ newIndex = 0 THEN currentBookmarks
                ELSE Arr(g, arrayMove(currentBookmarks.items, oldIndex, newIndex))
        ELSE updateTreeRecursively(currentBookmarks, activeNode[1].parentId,
                                   activeId, overId, g)

\* handleDragEnd after its early return: active is [id, type, node], over is
\* [id, type]; the forest the state updater of the chosen scenario returns
handleDragEnd(currentBookmarks, active, over) ==
    IF active.id = over.id THEN currentBookmarks
    ELSE IF over.id = ROOT_FOLDER_DROP_ID \/ over.type = "folder"
       THEN moveNode(currentBookmarks, active.node, active.type, over.id)
    ELSE IF active.type = "folder" /\ over.type = "folder"
       THEN handleReorderFolders(currentBookmarks, active.id, over.id, 1)
    ELSE IF active.type = "bookmark" /\ over.type = "bookmark"
       THEN handleReorderBookmarks(currentBookmarks, active.id, over.id, 1)
    ELSE currentBookmarks

\* the folder node handleAddFolder builds, and the bookmark node of
\* handleAddBookmark
newFolderNode(id, title, parentId) ==
    BookmarkNode(id, title, UndefinedStr, Arr(1, <<>>), parentId, 1)

newBookmarkNode(id, parentId) ==
    BookmarkNode(id, <<"N", "e", "w">>, <<>>, NoChildren, parentId, 1)

\* the updater of handleAddFolder and of handleAddBookmark
handleAdd(currentBookmarks, parentId, newNode) ==
    insertNode(currentBookmarks, parentId, newNode,
               IF parentId # Null THEN "inside" ELSE "root", 2)

\* the updater of handleDeleteNode; confirmed is the answer to window.confirm
handleDeleteNode(currentBookmarks, nodeId, confirmed) ==
    IF findNodeById(currentBookmarks, nodeId) = <<>> THEN currentBookmarks
    ELSE IF ~confirmed THEN currentBookmarks
    ELSE removeNodeById(currentBookmarks, nodeId, 1)

RECURSIVE updateNodeTitle(_, _, _, _)
\* nodes.map(...) of handleRenameNode: map allocates the array it returns
updateNodeTitle(nodes, nodeId, newTitle, g) ==
    Arr(g, [i \in 1..Len(nodes.items) |->
        LET node == nodes.items[i]
            updatedChildren ==
                updateNodeTitle(node.children, nodeId, newTitle, g)
        IN  IF node.id = nodeId
               THEN [node EXCEPT !.title = newTitle, !.ref = g]
            ELSE IF node.children.def /\ updatedChildren # node.children
               THEN [node EXCEPT !.children = updatedChildren, !.ref = g]
            ELSE node])

\* the updater of handleRenameNode
handleRenameNode(currentBookmarks, nodeId, newTitle) ==
    updateNodeTitle(currentBookmarks, nodeId, newTitle, 1)

RECURSIVE traverse(_, _, _, _)
\* findDuplicateUrls over the nodes in traversal order: urlMap maps a url
\* to the ids seen with it
traverse(list, i, urlMap, duplicateIdSet) ==
    IF i > Len(list) THEN duplicateIdSet
    ELSE LET node == list[i]
             existing == {e \in urlMap : e[1] = node.url}
         IN  IF ~Truthy(node.url)
                THEN traverse(list, i + 1, urlMap, duplicateIdSet)
             ELSE IF existing # {}
                THEN traverse(list, i + 1, urlMap \cup {<<node.url, node.id>>},
                              duplicateIdSet \cup {e[2] : e \in existing}
                                             \cup {node.id})
             ELSE traverse(list, i + 1, urlMap \cup {<<node.url, node.id>>},
                           duplicateIdSet)

\* a detector that spares the first node of every url
Mut_findDuplicateUrlsLaterOnly(nodes) ==
    LET list == PreOrder(nodes)
    IN  {list[i].id : i \in {k \in 1..Len(list) :
            /\ Truthy(list[k].url)
            /\ \E j \in 1..(k - 1) : list[j].url = list[k].url}}

findDuplicateUrls(nodes) == traverse(PreOrder(nodes), 1, {}, {})

\* a filter of the given array only, without descending
Mut_removeDuplicatesTopLevel(nodes, duplicateIds, g) ==
    Arr(g, SelectSeq(nodes.items, LAMBDA n : n.id \notin duplicateIds))

RECURSIVE removeDuplicatesRecursive(_, _, _)
removeDuplicatesRecursive(nodes, duplicateIds, g) ==
    LET kept == SelectSeq(nodes.items, LAMBDA n : n.id \notin duplicateIds)
    IN  Arr(g, [i \in 1..Len(kept) |->
                 IF kept[i].children.def
                    THEN [kept[i] EXCEPT
                            !.ref = g,
                            !.children =
                                removeDuplicatesRecursive(@, duplicateIds, g)]
                    ELSE kept[i]])

\* setBookmarks([]) of handleUpload: "Reset state before parsing" and
\* "Clear bookmarks on error"
uploadReset(currentBookmarks) == Arr(1, <<>>)

-----------------------------------------------------------------------------
(* Vocabulary of the properties *)

\* the node objects of a forest that carry the id
NodesWithId(nodes, id) ==
    SelectSeq(PreOrder(nodes), LAMBDA n : n.id = id)

\* the ids of the subtrees rooted at the nodes that carry the id
SubtreeIds(nodes, id) ==
    UNION {IdsOf(Arr(0, <<n>>)) : n \in Range(NodesWithId(nodes, id))}

\* the id of the folder whose children contain the id (Null at the root)
OwnerOf(nodes, id) ==
    CHOOSE o \in {p[2] : p \in {q \in Places(nodes, Null) : q[1] = id}} : TRUE

Without(list, ids) == SelectSeq(list, LAMBDA x : x \notin ids)

IndexOf(list, x) == CHOOSE i \in 1..Len(list) : list[i] = x

-----------------------------------------------------------------------------
(* Bounded inputs: forest shapes, and the forests built from them *)

TitlePool == << <<"A">>, <<"B", "&", "b">>, <<"C", " ", "<", "c", ">">>,
                <<"D", "'", "\"">> >>

UrlPool == << <<"u">>, <<"v", "&">> >>

TitleOf(k) == TitlePool[((k - 1) % Len(TitlePool)) + 1]

UrlOf(k) == UrlPool[((k - 1) % Len(UrlPool)) + 1]

RECURSIVE ShapeSeqs(_, _)
\* the ordered forests of exactly n nodes nested at most d deep; a shape is
\* a bookmark ("B") or a folder ("F") with a sequence of shapes
ShapeSeqs(n, d) ==
    IF n = 0 THEN {<<>>}
    ELSE IF d = 0 THEN {}
    ELSE UNION {
           {<<h>> \o t :
              h \in (IF k = 0 THEN {[kind |-> "B", kids |-> <<>>]} ELSE {})
                    \cup {[kind |-> "F", kids |-> c] : c \in ShapeSeqs(k, d - 1)},
              t \in ShapeSeqs(n - 1 - k, d)} : k \in 0..(n - 1)}

RECURSIVE ShapeSize(_)
ShapeSize(s) ==
    SeqSum([i \in 1..Len(s) |-> 1 + ShapeSize(s[i].kids)])

RECURSIVE BuildForest(_, _, _)
\* the forest of a shape: ids in pre-order from IdName[start], parentId as
\* the import parser sets it, every object of epoch 0
BuildForest(s, start, parentId) ==
    Arr(0, [i \in 1..Len(s) |->
              LET k == start + ShapeSize(SubSeq(s, 1, i - 1))
              IN  IF s[i].kind = "B"
                     THEN BookmarkNode(IdName[k], TitleOf(k), UrlOf(k),
                                       NoChildren, parentId, 0)
                     ELSE BookmarkNode(IdName[k], TitleOf(k), UndefinedStr,
                                       BuildForest(s[i].kids, k + 1, IdName[k]),
                                       parentId, 0)])

HarnessForests ==
    {BuildForest(s, 1, Null) :
        s \in UNION {ShapeSeqs(n, MaxDepth) : n \in 0..MaxNodes}}

UnknownId == "zz"

\* a node that is not in the forest yet, carrying a parentId of the caller
NewNodes ==
    {BookmarkNode("new", <<"N">>, <<"w">>, NoChildren, p, 1)
        : p \in {Null, "stale"}} \cup
    {BookmarkNode("new", <<"N">>, UndefinedStr,
                  Arr(1, <<BookmarkNode("newkid", <<"K">>, <<"w">>,
                                        NoChildren, "new", 1)>>), "stale", 1)}

-----------------------------------------------------------------------------
(* Bounded inputs: bookmark files *)

RECURSIVE BrowserDt(_, _, _)
\* the <DT> entries a browser writes for a shape: the <DL> of a folder
\* follows its <H3> inside the still open <DT>
BrowserDt(s, start, urls) ==
    Flat([i \in 1..Len(s) |->
        LET k == start + ShapeSize(SubSeq(s, 1, i - 1))
        IN  IF s[i].kind = "B"
               THEN <<StartTag("DT", UndefinedStr),
                      StartTag("A", escapeHtml(urls[((k - 1) % Len(urls)) + 1])),
                      TextRun(escapeHtml(TitleOf(k))), EndTag("A")>>
               ELSE <<StartTag("DT", UndefinedStr),
                      StartTag("H3", UndefinedStr),
                      TextRun(escapeHtml(TitleOf(k))), EndTag("H3"),
                      StartTag("DL", UndefinedStr),
                      StartTag("P", UndefinedStr)>>
                    \o BrowserDt(s[i].kids, k + 1, urls) \o
                    <<EndTag("DL"), StartTag("P", UndefinedStr)>>])

BrowserFile(s, urls) ==
    [readable |-> TRUE,
     items |-> ShapeSize(s),
     tokens |-> <<StartTag("H1", UndefinedStr), TextRun(<<"B">>), EndTag("H1"),
                  StartTag("DL", UndefinedStr), StartTag("P", UndefinedStr)>>
                \o BrowserDt(s, 1, urls) \o
                <<EndTag("DL"), StartTag("P", UndefinedStr)>>]

NoFile == [readable |-> FALSE, items |-> 0, tokens |-> <<"none">>]

\* a file the FileReader fails on, and a page without any <DL>
UnreadableFile == [readable |-> FALSE, items |-> 0, tokens |-> <<>>]

NoListFile ==
    [readable |-> TRUE, items |-> 0,
     tokens |-> <<StartTag("H1", UndefinedStr), TextRun(<<"B">>), EndTag("H1")>>]

\* files of up to one item more than the parser accepts, with urls that
\* differ or with one url for every bookmark
Files ==
    {BrowserFile(s, UrlPool) :
        s \in UNION {ShapeSeqs(n, MaxDepth) : n \in 0..(MAX_BOOKMARKS + 1)}}
    \cup {BrowserFile(s, <<UrlPool[1]>>) :
        s \in UNION {ShapeSeqs(n, MaxDepth) : n \in 0..MAX_BOOKMARKS}}
    \cup {UnreadableFile, NoListFile}

-----------------------------------------------------------------------------
(* What is on screen for a forest: the rows and items that can be dragged,
   dropped on, edited or deleted *)

\* the forest a state updater receives: the committed state
Cur == Settle(bookmarks)

\* the rows of the folder panel carry the folder-only copies
FolderRows(forest) == Range(PreOrder(extractFolderTree(forest, 1)))

FolderIds(forest) == {n.id : n \in FolderRows(forest)}

\* the ids that have a row or an item on screen for some selection
DisplayedIds(forest) ==
    FolderIds(forest) \cup
    {n.id : n \in {m \in Range(PreOrder(forest)) : m.url # UndefinedStr}}

FolderActives(forest) ==
    {[id |-> n.id, type |-> "folder", node |-> n] : n \in FolderRows(forest)}

BookmarkActives(forest, selectedFolderId) ==
    {[id |-> n.id, type |-> "bookmark", node |-> n] :
        n \in Range(rightPanelNodes(forest, selectedFolderId))}

\* what can be dragged, and what it can be dropped on, for some selection
Actives(forest) ==
    FolderActives(forest) \cup
    UNION {BookmarkActives(forest, sel) : sel \in FolderIds(forest) \cup {Null}}

Overs(forest) ==
    {[id |-> ROOT_FOLDER_DROP_ID, type |-> Undefined],
     [id |-> ALL_BOOKMARKS_ITEM_ID, type |-> "all_bookmarks_item"]}
    \cup {[id |-> a.id, type |-> a.type] : a \in Actives(forest)}

\* two bookmark items are on screen together when one selection lists both
OnScreenTogether(forest, active, over) ==
    (active.type = "bookmark" /\ over.type = "bookmark") =>
        \E sel \in FolderIds(forest) \cup {Null} :
            {active.id, over.id} \subseteq
                {a.id : a \in BookmarkActives(forest, sel)}

-----------------------------------------------------------------------------
(* Persistence: bookmarkStorage.ts, and the debounced save effect of the    *)
(* App with useDebouncedEffect.  A render and the effects it triggers are   *)
(* one step with the state update that caused the render.                   *)

\* db.get finds nothing under the key
NoValue == [def |-> FALSE, ref |-> 0, items |-> <<>>]

NoTimeout ==
    [set |-> FALSE, bookmarks |-> Arr(0, <<>>), isInitialLoad |-> FALSE,
     isLoading |-> FALSE]

\* a loadBookmarks that lets a failed read reject
Mut_loadBookmarksRejects(value, readOk) ==
    IF ~readOk THEN [rejected |-> TRUE, bookmarks |-> Arr(1, <<>>)]
    ELSE IF value # NoValue THEN [rejected |-> FALSE, bookmarks |-> value]
    ELSE [rejected |-> FALSE, bookmarks |-> Arr(1, <<>>)]

\* loadBookmarks: value is what db.get finds under BOOKMARKS_KEY, readOk is
\* FALSE when getDB or db.get rejects; the catch returns []
loadBookmarks(value, readOk) ==
    IF ~readOk THEN [rejected |-> FALSE, bookmarks |-> Arr(1, <<>>)]
    ELSE IF value # NoValue THEN [rejected |-> FALSE, bookmarks |-> value]
    ELSE [rejected |-> FALSE, bookmarks |-> Arr(1, <<>>)]

\* a debounce that leaves a pending timeout alone
Mut_useDebouncedEffectKeepsPending(timeout, depsBefore, depsAfter) ==
    IF depsAfter = depsBefore \/ timeout.set THEN timeout
    ELSE [set |-> TRUE, bookmarks |-> Settle(depsAfter[1]),
          isInitialLoad |-> depsAfter[2], isLoading |-> depsAfter[3]]

\* useDebouncedEffect over a render: when a dependency changed, the pending
\* timeout is cleared and a new one is set whose callback runs the effect of
\* this render, which closes over the state of this render
useDebouncedEffect(timeout, depsBefore, depsAfter) ==
    IF depsAfter = depsBefore THEN timeout
    ELSE [set |-> TRUE, bookmarks |-> Settle(depsAfter[1]),
          isInitialLoad |-> depsAfter[2], isLoading |-> depsAfter[3]]

\* an effect that saves whatever the flags are
Mut_savesWhenLoading(closure) == TRUE

\* the debounced save effect: 'if (isInitialLoad || isLoading) return',
\* else saveBookmarks(bookmarks) is called
callsSaveBookmarks(closure) == ~(closure.isInitialLoad \/ closure.isLoading)

-----------------------------------------------------------------------------
(* Pure-function harness: one call on the forest fnIn *)

InitApp ==
    /\ bookmarks = Arr(0, <<>>)
    /\ beforeUpload = Arr(0, <<>>)
    /\ last = [op |-> "init"]
    /\ isLoading = TRUE
    /\ isInitialLoad = TRUE
    /\ error = FALSE
    /\ editingNodeId = Null
    /\ upload = NoFile
    /\ nextId = 0

\* the store and the save timer are left out of the runs that do not look
\* at them
InitStoreIdle ==
    /\ timeoutRef = NoTimeout
    /\ stored = NoValue
    /\ saving = <<>>
    /\ saved = NoValue

InitFn ==
    /\ InitApp
    /\ fnIn \in HarnessForests
    /\ fnCall = [op |-> "none"]
    /\ fnOut = fnIn
    /\ InitStoreIdle

\* removeNodeById(fnIn, id), then removeNodeById on its result
CallRemove ==
    \E id \in IdsOf(fnIn) \cup {UnknownId} :
        /\ fnCall.op = "none"
        /\ fnCall' = [op |-> "remove", id |-> id]
        /\ fnOut' = [once |-> removeNodeById(fnIn, id, 1),
                     twice |-> removeNodeById(removeNodeById(fnIn, id, 1), id, 2),
                     flagged |-> removeNodeByIdFlagged(fnIn, id, 1)]
        /\ UNCHANGED <<fnIn, appVars, storeVars>>

\* insertNode(fnIn, targetId, newNode, position)
CallInsert ==
    \E targetId \in IdsOf(fnIn) \cup {UnknownId, Null},
       newNode \in NewNodes,
       position \in {"root", "inside", "before", "after"} :
        /\ fnCall.op = "none"
        /\ targetId = Null => position = "root"
        /\ fnCall' = [op |-> "insert", targetId |-> targetId,
                      newNode |-> newNode, position |-> position]
        /\ fnOut' = insertNode(fnIn, targetId, newNode, position, 2)
        /\ UNCHANGED <<fnIn, appVars, storeVars>>

\* parse(serialize(fnIn)): generateBookmarkHtml, DOMParser, parseBookmarkHtml
CallRoundTrip ==
    /\ fnCall.op = "none"
    /\ fnCall' = [op |-> "roundTrip"]
    /\ fnOut' = parseBookmarkHtml(
                    parseFromString(generateBookmarkHtml(fnIn)), 0)
    /\ UNCHANGED <<fnIn, appVars, storeVars>>

\* the state updater of handleDragEnd on fnIn, for what is on screen and
\* for a folder droppable whose folder is not in the forest
CallDragEnd ==
    \E active \in Actives(fnIn),
       over \in Overs(fnIn) \cup {[id |-> UnknownId, type |-> "folder"]} :
        /\ fnCall.op = "none"
        /\ OnScreenTogether(fnIn, active, over)
        /\ fnCall' = [op |-> "dragEnd", active |-> active, over |-> over]
        /\ fnOut' = handleDragEnd(fnIn, active, over)
        /\ UNCHANGED <<fnIn, appVars, storeVars>>

\* the state updater of handleRenameNode on fnIn
CallRename ==
    \E nodeId \in IdsOf(fnIn) \cup {UnknownId} :
        /\ fnCall.op = "none"
        /\ fnCall' = [op |-> "rename", nodeId |-> nodeId]
        /\ fnOut' = handleRenameNode(fnIn, nodeId, <<"R">>)
        /\ UNCHANGED <<fnIn, appVars, storeVars>>

\* the state updater of handleReorderBookmarks on fnIn
CallReorderBookmarks ==
    \E activeId \in IdsOf(fnIn) \cup {UnknownId},
       overId \in IdsOf(fnIn) \cup {UnknownId} :
        /\ fnCall.op = "none"
        /\ fnCall' = [op |-> "reorderBookmarks", activeId |-> activeId,
                      overId |-> overId]
        /\ fnOut' = handleReorderBookmarks(fnIn, activeId, overId, 1)
        /\ UNCHANGED <<fnIn, appVars, storeVars>>

\* the state updater of handleReorderFolders on fnIn
CallReorderFolders ==
    \E activeId \in IdsOf(fnIn) \cup {UnknownId},
       overId \in IdsOf(fnIn) \cup {UnknownId} :
        /\ fnCall.op = "none"
        /\ fnCall' = [op |-> "reorderFolders", activeId |-> activeId,
                      overId |-> overId]
        /\ fnOut' = handleReorderFolders(fnIn, activeId, overId, 1)
        /\ UNCHANGED <<fnIn, appVars, storeVars>>

\* the url strings a bookmark of the forest may carry: those of imported
\* anchors and the "" handleAddBookmark gives a new bookmark
UrlChoices == Range(UrlPool) \cup {<<>>}

RECURSIVE WithUrls(_, _)
\* the forest with the url of every bookmark replaced by urls[id]
WithUrls(nodes, urls) ==
    Arr(0, [i \in 1..Len(nodes.items) |->
              LET node == nodes.items[i]
              IN  IF node.children.def
                     THEN [node EXCEPT !.children = WithUrls(@, urls)]
                     ELSE [node EXCEPT !.url = urls[node.id]]])

\* findDuplicateUrls on fnIn with the bookmarks' urls chosen freely
CallFindDuplicates ==
    \E urls \in [IdsOf(fnIn) -> UrlChoices] :
        /\ fnCall.op = "none"
        /\ fnCall' = [op |-> "findDuplicates", nodes |-> WithUrls(fnIn, urls)]
        /\ fnOut' = findDuplicateUrls(WithUrls(fnIn, urls))
        /\ UNCHANGED <<fnIn, appVars, storeVars>>

\* handleRemoveDuplicates, confirmed, with duplicateIds the memo of
\* findDuplicateUrls over the forest it updates
CallRemoveDuplicates ==
    \E urls \in [IdsOf(fnIn) -> UrlChoices] :
        LET nodes == WithUrls(fnIn, urls)
        IN  /\ fnCall.op = "none"
            /\ findDuplicateUrls(nodes) # {}
            /\ fnCall' = [op |-> "removeDuplicates", nodes |-> nodes]
            /\ fnOut' = removeDuplicatesRecursive(nodes,
                                                  findDuplicateUrls(nodes), 1)
            /\ UNCHANGED <<fnIn, appVars, storeVars>>

\* a <DT> that holds neither an anchor nor a heading
UnrecognizedDt == <<StartTag("DT", UndefinedStr), TextRun(<<"j">>)>>

\* where an unrecognized <DT> can stand in the document written for a
\* forest: in the list of owner (Null: the main list), after its first
\* after entries
UnrecognizedPlaces(nodes) ==
    UNION {{<<m[1], after>> : after \in 0..Len(m[2])} :
              m \in SiblingLists(nodes, Null)}

RECURSIVE BrowserDtOf(_, _, _)
\* the <DT> entries a browser writes for a forest (the <DL> of a folder
\* follows its <H3> inside the still open <DT>), with an unrecognized <DT>
\* at the place extra = <<owner, after>>, or none for extra = <<>>
BrowserDtOf(nodes, owner, extra) ==
    LET at(i) == IF extra # <<>> /\ extra[1] = owner /\ extra[2] = i
                    THEN UnrecognizedDt ELSE <<>>
    IN  at(0) \o
        Flat([i \in 1..Len(nodes.items) |->
            LET node == nodes.items[i]
            IN  (IF ~node.children.def
                    THEN <<StartTag("DT", UndefinedStr),
                           StartTag("A", escapeHtml(node.url)),
                           TextRun(escapeHtml(node.title)), EndTag("A")>>
                    ELSE <<StartTag("DT", UndefinedStr),
                           StartTag("H3", UndefinedStr),
                           TextRun(escapeHtml(node.title)), EndTag("H3"),
                           StartTag("DL", UndefinedStr),
                           StartTag("P", UndefinedStr)>>
                         \o BrowserDtOf(node.children, node.id, extra) \o
                         <<EndTag("DL"), StartTag("P", UndefinedStr)>>)
                \o at(i)])

BrowserHtml(nodes, extra) ==
    <<StartTag("H1", UndefinedStr), TextRun(<<"B">>), EndTag("H1"),
      StartTag("DL", UndefinedStr), StartTag("P", UndefinedStr)>>
    \o BrowserDtOf(nodes, Null, extra) \o
    <<EndTag("DL"), StartTag("P", UndefinedStr)>>

\* parseBookmarkHtml on the document a browser writes for fnIn, with or
\* without one unrecognized <DT> in it
CallParse ==
    \E extra \in UnrecognizedPlaces(fnIn) \cup {<<>>} :
        /\ fnCall.op = "none"
        /\ fnCall' = [op |-> "parse", extra |-> extra]
        /\ fnOut' = parseBookmarkHtml(
                        parseFromString(BrowserHtml(fnIn, extra)), 0)
        /\ UNCHANGED <<fnIn, appVars, storeVars>>

\* the characters of the titles and urls given to the serializer: three it
\* escapes and the letters of an entity
EscapeAlphabet == {"&", "<", "\"", "l", "t", ";"}

RECURSIVE StringsUpTo(_)
StringsUpTo(n) ==
    IF n = 0 THEN {<<>>}
    ELSE StringsUpTo(n - 1) \cup
         {Append(x, c) : x \in StringsUpTo(n - 1), c \in EscapeAlphabet}

\* escapeHtml on a string, and the import of the export of the one bookmark
\* that carries the string as its title and as its url
CallEscape ==
    \E str \in StringsUpTo(MaxLen) \ {<<>>} :
        /\ fnCall.op = "none"
        /\ fnIn.items = <<>>
        /\ fnCall' = [op |-> "escape", str |-> str]
        /\ fnOut' = [escaped |-> escapeHtml(str),
                     parsed |-> parseBookmarkHtml(parseFromString(
                         generateBookmarkHtml(Arr(0,
                             <<BookmarkNode(IdName[1], str, str, NoChildren,
                                            Null, 0)>>))), 0)]
        /\ UNCHANGED <<fnIn, appVars, storeVars>>

\* what is typed into the search bar: nothing, a letter of a title in
\* either case, a letter of a url, a character of both, two characters in
\* a row, and text no node carries
Queries == {<<>>, <<"a">>, <<"B">>, <<"d">>, <<"U">>, <<"&">>, <<"c", ">">>,
            <<"x">>}

\* filterBookmarkTree(bookmarks, debouncedSearchQuery) on fnIn
CallFilter ==
    \E query \in Queries :
        /\ fnCall.op = "none"
        /\ fnCall' = [op |-> "filter", query |-> query]
        /\ fnOut' = filterBookmarkTree(fnIn, query, 1)
        /\ UNCHANGED <<fnIn, appVars, storeVars>>

NextFn ==
    \/ CallRemove
    \/ CallInsert
    \/ CallRoundTrip
    \/ CallDragEnd
    \/ CallRename
    \/ CallReorderBookmarks
    \/ CallReorderFolders
    \/ CallFindDuplicates
    \/ CallRemoveDuplicates
    \/ CallFilter
    \/ CallParse
    \/ CallEscape

SpecFn == InitFn /\ [][NextFn]_vars

-----------------------------------------------------------------------------
(* The App: one action per handler.  last names the handler that ran last;
   beforeUpload is the forest handleUpload found when it started, kept
   while the import is pending and after it failed, until the next handler
   runs. *)

Init ==
    /\ InitApp
    /\ fnIn = Arr(0, <<>>)
    /\ fnCall = [op |-> "none"]
    /\ fnOut = Arr(0, <<>>)
    /\ InitStoreIdle

\* the loadData effect, on a store that holds nothing yet
LoadData ==
    /\ isInitialLoad
    /\ bookmarks' = Arr(1, <<>>)
    /\ beforeUpload' = Arr(0, <<>>)
    /\ last' = [op |-> "load"]
    /\ isLoading' = FALSE
    /\ isInitialLoad' = FALSE
    /\ UNCHANGED <<error, editingNodeId, upload, nextId, fnVars, storeVars>>

\* handleUpload up to its await
UploadStart ==
    \E file \in Files :
        /\ ~isLoading
        /\ upload = NoFile
        /\ nextId + file.items <= MaxIds
        /\ isLoading' = TRUE
        /\ error' = FALSE
        /\ bookmarks' = uploadReset(Cur)
        /\ upload' = file
        /\ beforeUpload' = Cur
        /\ last' = [op |-> "uploadStart"]
        /\ UNCHANGED <<isInitialLoad, editingNodeId, nextId, fnVars, storeVars>>

\* handleUpload after its await: the try, the catch and the finally
UploadFinish ==
    LET parsed == parseBookmarkFile(upload, nextId)
    IN  /\ upload # NoFile
        /\ IF parsed.thrown
              THEN /\ error' = TRUE
                   /\ bookmarks' = uploadReset(Cur)
                   /\ last' = [op |-> "uploadFailed"]
                   /\ UNCHANGED beforeUpload
              ELSE /\ error' = error
                   /\ bookmarks' = parsed.nodes
                   /\ last' = [op |-> "uploadDone"]
                   /\ beforeUpload' = Arr(0, <<>>)
        /\ nextId' = nextId + parsed.count
        /\ isLoading' = FALSE
        /\ upload' = NoFile
        /\ UNCHANGED <<isInitialLoad, editingNodeId, fnVars, storeVars>>

\* handleDragEnd with the dragged row or item and the droppable under it;
\* a row in edit mode has no drag listeners
DragEnd ==
    \E active \in Actives(Cur), over \in Overs(Cur) :
        /\ ~isLoading
        /\ active.type = "folder" => editingNodeId # active.id
        /\ OnScreenTogether(Cur, active, over)
        /\ bookmarks' = handleDragEnd(Cur, active, over)
        /\ beforeUpload' = Arr(0, <<>>)
        /\ last' = [op |-> "dragEnd", activeId |-> active.id,
                    activeType |-> active.type, overId |-> over.id,
                    from |-> OwnerOf(Cur, active.id)]
        /\ UNCHANGED <<isLoading, isInitialLoad, error, editingNodeId, upload,
                       nextId, fnVars, storeVars>>

\* handleAddFolder; folderName is what window.prompt returns
AddFolder ==
    \E parentId \in FolderIds(Cur) \cup {Null}, folderName \in {<<" ">>, <<"N", " ">>} :
        /\ ~isLoading
        /\ nextId < MaxIds
        /\ Trim(folderName) # <<>>
        /\ bookmarks' = handleAdd(Cur, parentId,
                            newFolderNode(IdName[nextId + 1], Trim(folderName),
                                          parentId))
        /\ nextId' = nextId + 1
        /\ beforeUpload' = Arr(0, <<>>)
        /\ last' = [op |-> "addFolder"]
        /\ UNCHANGED <<isLoading, isInitialLoad, error, editingNodeId, upload,
                       fnVars, storeVars>>

\* handleAddBookmark, with the timer that puts the new bookmark in edit mode
AddBookmark ==
    \E parentId \in FolderIds(Cur) \cup {Null} :
        /\ ~isLoading
        /\ nextId < MaxIds
        /\ bookmarks' = handleAdd(Cur, parentId,
                            newBookmarkNode(IdName[nextId + 1], parentId))
        /\ nextId' = nextId + 1
        /\ editingNodeId' = IdName[nextId + 1]
        /\ beforeUpload' = Arr(0, <<>>)
        /\ last' = [op |-> "addBookmark"]
        /\ UNCHANGED <<isLoading, isInitialLoad, error, upload, fnVars, storeVars>>

\* handleDeleteNode; confirmed is the answer to window.confirm
DeleteNode ==
    \E nodeId \in DisplayedIds(Cur), confirmed \in BOOLEAN :
        /\ ~isLoading
        /\ bookmarks' = handleDeleteNode(Cur, nodeId, confirmed)
        /\ beforeUpload' = Arr(0, <<>>)
        /\ last' = [op |-> "delete"]
        /\ UNCHANGED <<isLoading, isInitialLoad, error, editingNodeId, upload,
                       nextId, fnVars, storeVars>>

\* handleEditNode
EditNode ==
    \E nodeId \in DisplayedIds(Cur) :
        /\ ~isLoading
        /\ editingNodeId' = nodeId
        /\ UNCHANGED <<bookmarks, beforeUpload, last, isLoading, isInitialLoad, error,
                       upload, nextId, fnVars, storeVars>>

\* handleFinishEditing of the row or item in edit mode: handleRenameNode is
\* called when the trimmed text is not empty and differs from the title
FinishEditing ==
    \E node \in {n \in Range(PreOrder(Cur)) : n.id \in DisplayedIds(Cur)},
       editText \in {<<" ">>, <<"R">>} :
        /\ ~isLoading
        /\ editingNodeId = node.id
        /\ Trim(editText) # <<>>
        /\ Trim(editText) # node.title
        /\ bookmarks' = handleRenameNode(Cur, node.id, Trim(editText))
        /\ editingNodeId' = Null
        /\ beforeUpload' = Arr(0, <<>>)
        /\ last' = [op |-> "rename"]
        /\ UNCHANGED <<isLoading, isInitialLoad, error, upload, nextId, fnVars, storeVars>>

\* handleRemoveDuplicates, confirmed, with the set the duplicates effect
\* computed for the forest on screen
RemoveDuplicates ==
    /\ ~isLoading
    /\ findDuplicateUrls(Cur) # {}
    /\ bookmarks' = removeDuplicatesRecursive(Cur, findDuplicateUrls(Cur), 1)
    /\ beforeUpload' = Arr(0, <<>>)
    /\ last' = [op |-> "removeDuplicates"]
    /\ UNCHANGED <<isLoading, isInitialLoad, error, editingNodeId, upload,
                   nextId, fnVars, storeVars>>

\* handleClearData
ClearData ==
    /\ ~isLoading
    /\ bookmarks' = Arr(1, <<>>)
    /\ beforeUpload' = Arr(0, <<>>)
    /\ last' = [op |-> "clear"]
    /\ UNCHANGED <<isLoading, isInitialLoad, error, editingNodeId, upload,
                   nextId, fnVars, storeVars>>

Next ==
    \/ LoadData
    \/ UploadStart
    \/ UploadFinish
    \/ DragEnd
    \/ AddFolder
    \/ AddBookmark
    \/ DeleteNode
    \/ EditNode
    \/ FinishEditing
    \/ RemoveDuplicates
    \/ ClearData

Spec == Init /\ [][Next]_vars

-----------------------------------------------------------------------------
(* The App with its store: the load effect, the debounced save effect and   *)
(* the handlers that change the forest, over an IndexedDB that may hold a   *)
(* forest of an earlier session and whose reads and writes may fail         *)

\* what the store may hold when the App starts
StoredValues ==
    {NoValue, Arr(0, <<>>),
     Arr(0, <<BookmarkNode("s1", TitleOf(1), UrlOf(1), NoChildren, Null, 0)>>)}

\* the files given to handleUpload in these runs
StoreFiles ==
    {BrowserFile(s, UrlPool) : s \in UNION {ShapeSeqs(n, MaxDepth) : n \in 0..1}}
    \cup {UnreadableFile}

\* the render after a state update, with the effects it triggers
Render ==
    timeoutRef' = useDebouncedEffect(timeoutRef,
                      <<Cur, isInitialLoad, isLoading>>,
                      <<bookmarks', isInitialLoad', isLoading'>>)

InitStore ==
    /\ InitApp
    /\ fnIn = Arr(0, <<>>)
    /\ fnCall = [op |-> "none"]
    /\ fnOut = Arr(0, <<>>)
    /\ timeoutRef = [set |-> TRUE, bookmarks |-> Arr(0, <<>>),
                     isInitialLoad |-> TRUE, isLoading |-> TRUE]
    /\ stored \in StoredValues
    /\ saving = <<>>
    /\ saved = NoValue

\* the loadData effect: setBookmarks(await loadBookmarks()), and the finally
StoreLoadData ==
    \E readOk \in BOOLEAN :
        LET loaded == loadBookmarks(stored, readOk)
        IN  /\ isInitialLoad
            /\ bookmarks' = IF loaded.rejected THEN Cur
                            ELSE Arr(1, loaded.bookmarks.items)
            /\ isLoading' = FALSE
            /\ isInitialLoad' = FALSE
            /\ last' = [op |-> "load", readOk |-> readOk,
                        found |-> stored # NoValue,
                        rejected |-> loaded.rejected]
            /\ UNCHANGED <<beforeUpload, error, editingNodeId, upload, nextId,
                           fnVars, stored, saving, saved>>
            /\ Render

\* the timeout of useDebouncedEffect fires and runs the save effect of the
\* render that set it
TimeoutFire ==
    /\ timeoutRef.set
    /\ timeoutRef' = NoTimeout
    /\ IF callsSaveBookmarks(timeoutRef)
          THEN /\ Len(saving) < MaxPuts
               /\ saving' = Append(saving, timeoutRef.bookmarks)
               /\ saved' = timeoutRef.bookmarks
               /\ last' = [op |-> "save", isLoading |-> isLoading,
                           isInitialLoad |-> isInitialLoad,
                           latest |-> timeoutRef.bookmarks = Cur]
          ELSE /\ last' = [op |-> "skip"]
               /\ UNCHANGED <<saving, saved>>
    /\ UNCHANGED <<bookmarks, beforeUpload, isLoading, isInitialLoad, error,
                   editingNodeId, upload, nextId, fnVars, stored>>

\* db.put of the oldest saveBookmarks call settles: it writes the value, or
\* it rejects and saveData logs the error
PutSettle ==
    \E ok \in BOOLEAN :
        /\ saving # <<>>
        /\ stored' = IF ok THEN Head(saving) ELSE stored
        /\ saving' = Tail(saving)
        /\ UNCHANGED <<appVars, fnVars, timeoutRef, saved>>

\* handleAddFolder
StoreAddFolder ==
    \E parentId \in FolderIds(Cur) \cup {Null} :
        /\ ~isLoading
        /\ nextId < MaxIds
        /\ bookmarks' = handleAdd(Cur, parentId,
                            newFolderNode(IdName[nextId + 1], <<"N">>, parentId))
        /\ nextId' = nextId + 1
        /\ last' = [op |-> "addFolder"]
        /\ UNCHANGED <<beforeUpload, isLoading, isInitialLoad, error,
                       editingNodeId, upload, fnVars, stored, saving, saved>>
        /\ Render

\* handleDeleteNode; when window.confirm is answered with no the forest is
\* not replaced
StoreDeleteNode ==
    \E nodeId \in DisplayedIds(Cur), confirmed \in BOOLEAN :
        /\ ~isLoading
        /\ bookmarks' = handleDeleteNode(Cur, nodeId, confirmed)
        /\ last' = [op |-> "delete"]
        /\ UNCHANGED <<beforeUpload, isLoading, isInitialLoad, error,
                       editingNodeId, upload, nextId, fnVars, stored, saving,
                       saved>>
        /\ Render

\* handleUpload up to its await
StoreUploadStart ==
    \E file \in StoreFiles :
        /\ ~isLoading
        /\ upload = NoFile
        /\ nextId + file.items <= MaxIds
        /\ isLoading' = TRUE
        /\ error' = FALSE
        /\ bookmarks' = uploadReset(Cur)
        /\ upload' = file
        /\ last' = [op |-> "uploadStart"]
        /\ UNCHANGED <<beforeUpload, isInitialLoad, editingNodeId, nextId,
                       fnVars, stored, saving, saved>>
        /\ Render

\* parseBookmarkFile tabulated over the files and id counters of the store
\* specification: the completion of an upload looks its parse up.
StoreParses ==
    {<<file, n, parseBookmarkFile(file, n)>> : file \in StoreFiles, n \in 0..MaxIds}

StoreParseOf(file, n) ==
    (CHOOSE t \in StoreParses : t[1] = file /\ t[2] = n)[3]

\* handleUpload after its await: the try, the catch and the finally
StoreUploadFinish ==
    LET parsed == StoreParseOf(upload, nextId)
    IN  /\ upload # NoFile
        /\ error' = parsed.thrown
        /\ bookmarks' = IF parsed.thrown THEN uploadReset(Cur) ELSE parsed.nodes
        /\ last' = [op |-> "uploadFinish"]
        /\ nextId' = nextId + parsed.count
        /\ isLoading' = FALSE
        /\ upload' = NoFile
        /\ UNCHANGED <<beforeUpload, isInitialLoad, editingNodeId, fnVars,
                       stored, saving, saved>>
        /\ Render

\* what the user does, as opposed to what timers and promises do
UserStep ==
    \/ StoreAddFolder
    \/ StoreDeleteNode
    \/ StoreUploadStart

NextStore ==
    \/ StoreLoadData
    \/ TimeoutFire
    \/ PutSettle
    \/ StoreAddFolder
    \/ StoreDeleteNode
    \/ StoreUploadStart
    \/ StoreUploadFinish

SpecStore == InitStore /\ [][NextStore]_vars

\* timers fire, and the promises of the load, the parse and the write settle
SpecStoreLive ==
    /\ SpecStore
    /\ WF_vars(TimeoutFire)
    /\ WF_vars(PutSettle)
    /\ WF_vars(StoreLoadData)
    /\ WF_vars(StoreUploadFinish)

-----------------------------------------------------------------------------
(* The App with the inline edit of a row or item: edit mode is entered by   *)
(* handleEditNode or by handleAddBookmark, and the input of the row in edit *)
(* mode calls handleFinishEditing on Enter, on blur, and on the blur that   *)
(* Escape triggers                                                          *)

EditKeys == {"Enter", "Escape", "blur"}

\* what handleFinishEditing reads as editText: what was typed; on Escape
\* setEditText(title) was called just before the blur, and the handler of
\* the blur sees the typed text or the title, as the update was or was not
\* rendered before it runs
EditTexts(key, typed, title) ==
    IF key = "Escape" THEN {typed, title} ELSE {typed}

\* handleFinishEditing of the row or item in edit mode, both branches
FinishEditingKey ==
    \E node \in {n \in Range(PreOrder(Cur)) : n.id \in DisplayedIds(Cur)},
       key \in EditKeys,
       typed \in {<<>>, <<" ">>, <<"R">>} :
        \E editText \in EditTexts(key, IF typed = <<>> THEN node.title ELSE typed,
                                  node.title) :
            /\ ~isLoading
            /\ editingNodeId = node.id
            /\ IF Trim(editText) # <<>> /\ Trim(editText) # node.title
                  THEN /\ bookmarks' = handleRenameNode(Cur, node.id, Trim(editText))
                       /\ editingNodeId' = Null
                       /\ last' = [op |-> "finishEditing", key |-> key,
                                   renamed |-> TRUE]
                  ELSE /\ last' = [op |-> "finishEditing", key |-> key,
                                   renamed |-> FALSE]
                       /\ UNCHANGED <<bookmarks, editingNodeId>>
            /\ beforeUpload' = Arr(0, <<>>)
            /\ UNCHANGED <<isLoading, isInitialLoad, error, upload, nextId,
                           fnVars, storeVars>>

NextEdit ==
    \/ LoadData
    \/ AddFolder
    \/ AddBookmark
    \/ EditNode
    \/ FinishEditingKey

SpecEdit == Init /\ [][NextEdit]_vars

\* an edit that was begun is finished: a key ends it or the input loses
\* the focus
SpecEditLive == SpecEdit /\ WF_vars(FinishEditingKey)

-----------------------------------------------------------------------------
(* C1 *)

\* C1 (as claimed): removing an id that occurs nowhere returns the very
\* array it was given, and a second removal of the same id returns the
\* result of the first.
C1_RemoveNoOpSameReference ==
    fnCall.op = "remove" =>
        /\ fnCall.id \notin IdsOf(fnIn) => fnOut.once = fnIn
        /\ fnOut.twice = fnOut.once

-----------------------------------------------------------------------------
(* C9 *)

\* C9: the result of removeNodeById holds neither the node with the id nor
\* any node of its subtree, and holds every other node, unchanged, under the
\* same parent and in the same relative order among its siblings.
C9_RemoveDeletesSubtreeOnly ==
    fnCall.op = "remove" =>
        LET gone == SubtreeIds(fnIn, fnCall.id)
        IN  /\ IdsOf(fnOut.once) = IdsOf(fnIn) \ gone
            /\ SiblingLists(fnOut.once, Null) =
                 {<<l[1], Without(l[2], gone)>> :
                     l \in {m \in SiblingLists(fnIn, Null) : m[1] \notin gone}}
            /\ \A n \in Range(PreOrder(fnOut.once)) :
                 \E m \in Range(PreOrder(fnIn)) :
                    /\ m.id = n.id /\ m.title = n.title /\ m.url = n.url
                    /\ m.parentId = n.parentId
                    /\ m.children.def = n.children.def

\* a nested folder that has children of its own was removed
C9_Witness ==
    /\ fnCall.op = "remove"
    /\ fnCall.id \in IdsOf(fnIn)
    /\ OwnerOf(fnIn, fnCall.id) # Null
    /\ Cardinality(SubtreeIds(fnIn, fnCall.id)) > 1
    /\ Len(fnOut.once.items) = Len(fnIn.items)

-----------------------------------------------------------------------------
(* C10, C5 *)

InsertSucceeds ==
    /\ fnCall.op = "insert"
    /\ fnCall.position = "root" \/ fnCall.targetId \in IdsOf(fnIn)

\* the sibling lists insertNode is specified to produce
ExpectedAfterInsert ==
    LET t == fnCall.targetId
        new == fnCall.newNode.id
        before == SiblingLists(fnIn, Null)
    IN  IF fnCall.position = "root"
           THEN {IF l[1] = Null THEN <<Null, <<new>> \o l[2]>> ELSE l
                    : l \in before}
        ELSE IF fnCall.position = "inside"
           THEN {l \in before : l[1] # t} \cup
                {<<t, Append(IF NodesWithId(fnIn, t)[1].children.def
                                THEN [i \in 1..Len(NodesWithId(fnIn, t)[1].children.items)
                                        |-> NodesWithId(fnIn, t)[1].children.items[i].id]
                                ELSE <<>>, new)>>}
        ELSE {IF l[1] = OwnerOf(fnIn, t)
                 THEN <<l[1], InsertAt(l[2],
                                IndexOf(l[2], t) +
                                  (IF fnCall.position = "after" THEN 1 ELSE 0),
                                new)>>
                 ELSE l : l \in before}

\* C10: insertNode places newNode exactly once -- first at the root, last
\* child of the target, or immediately before / after the target -- and every
\* node that was there keeps its parent and its order.
C10_InsertPlacesOnce ==
    InsertSucceeds =>
        /\ Len(NodesWithId(fnOut, fnCall.newNode.id)) = 1
        /\ SiblingLists(fnOut, Null) =
              ExpectedAfterInsert \cup
              (IF fnCall.newNode.children.def
                  THEN SiblingLists(fnCall.newNode.children, fnCall.newNode.id)
                  ELSE {})

\* a node was inserted after a nested target that has a following sibling,
\* and another inside a folder that already had a child
C10_Witness ==
    /\ InsertSucceeds
    /\ \/ /\ fnCall.position = "inside"
          /\ NodesWithId(fnIn, fnCall.targetId)[1].children.def
          /\ Len(NodesWithId(fnIn, fnCall.targetId)[1].children.items) > 0
          /\ OwnerOf(fnIn, fnCall.targetId) # Null
       \/ /\ fnCall.position = "after"
          /\ OwnerOf(fnIn, fnCall.targetId) # Null

\* the id of the folder the inserted node ends up in
ResolvedParent ==
    IF fnCall.position = "root" THEN Null
    ELSE IF fnCall.position = "inside" THEN fnCall.targetId
    ELSE OwnerOf(fnIn, fnCall.targetId)

-----------------------------------------------------------------------------
(* C7 *)

RECURSIVE ShapeOf(_)
\* nesting, sibling order, titles and urls of a forest; ids left out
ShapeOf(nodes) ==
    [i \in 1..Len(nodes.items) |->
        [title |-> nodes.items[i].title,
         url |-> nodes.items[i].url,
         folder |-> nodes.items[i].children.def,
         children |-> IF nodes.items[i].children.def
                         THEN ShapeOf(nodes.items[i].children) ELSE <<>>]]

\* C7 (as claimed): parsing the exported HTML of a forest of folders and
\* bookmarks with titles and urls gives a forest of the same shape.
C7_RoundTripSameShape ==
    (fnCall.op = "roundTrip" /\ Len(PreOrder(fnIn)) <= MAX_BOOKMARKS) =>
        /\ ~fnOut.thrown
        /\ ShapeOf(fnOut.nodes) = ShapeOf(fnIn)

-----------------------------------------------------------------------------
(* C4 *)

RECURSIVE ParentIdAgrees(_, _)
\* every node of the array names owner as its parent, and so on below
ParentIdAgrees(nodes, owner) ==
    \A i \in 1..Len(nodes.items) :
        /\ nodes.items[i].parentId = owner
        /\ nodes.items[i].children.def =>
               ParentIdAgrees(nodes.items[i].children, nodes.items[i].id)

\* C4: in every forest the App holds, from the imported one on and after
\* any sequence of add, move, reorder, rename, delete and remove-duplicates
\* operations, each node's parentId is the id of the folder whose children
\* contain it, or null at the root.
C4_ParentIdMatchesContainer == ParentIdAgrees(bookmarks, Null)

\* a move has just put a node under another folder than before
C4_Witness ==
    /\ last.op = "dragEnd"
    /\ last.activeId \in IdsOf(bookmarks)
    /\ OwnerOf(bookmarks, last.activeId) # last.from
    /\ OwnerOf(bookmarks, last.activeId) # Null

-----------------------------------------------------------------------------
(* C2 *)

\* the ids of the folders that contain the id at any depth
AncestorIds(nodes, id) ==
    {n.id : n \in {m \in Range(PreOrder(nodes)) :
                      m.id # id /\ id \in SubtreeIds(nodes, m.id)}}

\* C2 (as claimed): after a rename every node object other than the renamed
\* node and its ancestors is the object the forest held before.
C2_RenameSharesUntouchedNodes ==
    (fnCall.op = "rename" /\ fnCall.nodeId \in IdsOf(fnIn)) =>
        \A n \in Range(PreOrder(fnOut)) :
            n.id \notin {fnCall.nodeId} \cup AncestorIds(fnIn, fnCall.nodeId)
                => n \in Range(PreOrder(fnIn))

-----------------------------------------------------------------------------
(* C3 *)

\* C3: a drag-end that drops folder F on F itself or on a folder of F's
\* subtree returns the forest it was given: same array, nothing removed,
\* nothing relocated.
C3_CycleRejected ==
    (/\ fnCall.op = "dragEnd"
     /\ fnCall.active.type = "folder"
     /\ fnCall.over.type = "folder"
     /\ fnCall.over.id \in SubtreeIds(fnIn, fnCall.active.id))
        => fnOut = fnIn

\* a folder was dropped on a folder nested below it
C3_Witness ==
    /\ fnCall.op = "dragEnd"
    /\ fnCall.active.type = "folder"
    /\ fnCall.over.type = "folder"
    /\ fnCall.over.id # fnCall.active.id
    /\ fnCall.over.id \in SubtreeIds(fnIn, fnCall.active.id)
    /\ fnOut = fnIn

-----------------------------------------------------------------------------
(* C6 *)

\* C6 (as claimed): a move onto a folder id that is not in the forest
\* returns the forest it was given, the moved node still in its place.
C6_MoveToMissingTargetIsNoOp ==
    (/\ fnCall.op = "dragEnd"
     /\ fnCall.over.type = "folder"
     /\ fnCall.over.id \notin IdsOf(fnIn))
        => /\ fnOut = fnIn
           /\ fnCall.active.id \in IdsOf(fnOut)

-----------------------------------------------------------------------------
(* C8 *)

\* C8 (as claimed): when an import fails, the forest held after handleUpload
\* has finished is the forest held before the import started.
C8_FailedImportKeepsForest ==
    last.op = "uploadFailed" => Settle(bookmarks) = beforeUpload

-----------------------------------------------------------------------------
(* C11 *)

\* C11: for 'inside', 'before' and 'after' with a targetId that occurs
\* nowhere in the forest, insertNode returns the very array it was given,
\* and newNode is nowhere in it.
C11_InsertMissingTargetSameReference ==
    (/\ fnCall.op = "insert"
     /\ fnCall.position \in {"inside", "before", "after"}
     /\ fnCall.targetId \notin IdsOf(fnIn))
        => /\ fnOut = fnIn
           /\ fnCall.newNode.id \notin IdsOf(fnOut)

\* insertNode was called for a missing target on a forest with a nested
\* folder, and gave back its input
C11_Witness ==
    /\ fnCall.op = "insert"
    /\ fnCall.position = "inside"
    /\ fnCall.targetId = UnknownId
    /\ \E n \in Range(PreOrder(fnIn)) : n.parentId # Null /\ n.children.def
    /\ fnOut = fnIn

-----------------------------------------------------------------------------
(* C12, C13, C14 *)

\* what a node carries apart from its place and its identity as an object
NodeFacts(nodes) ==
    {<<n.id, n.title, n.url, n.parentId, n.children.def>> :
        n \in Range(PreOrder(nodes))}

IsBookmark(nodes, id) ==
    \E n \in Range(PreOrder(nodes)) : n.id = id /\ ~n.children.def

IsFolder(nodes, id) ==
    \E n \in Range(PreOrder(nodes)) : n.id = id /\ n.children.def

\* the ids of the children sequence that contains the id
SiblingsOf(nodes, id) ==
    CHOOSE l \in {m[2] : m \in SiblingLists(nodes, Null)} : id \in Range(l)

\* list with x taken out and put back at the index y had in list
MoveToIndexOf(list, x, y) ==
    InsertAt(Without(list, {x}), IndexOf(list, y), x)

\* the forest with the children sequence of x reordered by MoveToIndexOf and
\* nothing else touched, as sibling lists
ExpectedAfterReorder ==
    (SiblingLists(fnIn, Null) \
        {<<OwnerOf(fnIn, fnCall.activeId), SiblingsOf(fnIn, fnCall.activeId)>>})
    \cup {<<OwnerOf(fnIn, fnCall.activeId),
            MoveToIndexOf(SiblingsOf(fnIn, fnCall.activeId),
                          fnCall.activeId, fnCall.overId)>>}

SameParentCall(kindOk(_, _)) ==
    /\ fnCall.activeId \in IdsOf(fnIn)
    /\ fnCall.overId \in IdsOf(fnIn)
    /\ kindOk(fnIn, fnCall.activeId)
    /\ kindOk(fnIn, fnCall.overId)
    /\ OwnerOf(fnIn, fnCall.activeId) = OwnerOf(fnIn, fnCall.overId)

\* C12: reordering a bookmark over a bookmark of the same parent takes the
\* active one out and puts it back at the index the other had; the other
\* siblings keep their order and nothing else in the forest changes.
C12_ReorderBookmarksMovesToIndex ==
    (fnCall.op = "reorderBookmarks" /\ SameParentCall(IsBookmark)) =>
        /\ SiblingLists(fnOut, Null) = ExpectedAfterReorder
        /\ NodeFacts(fnOut) = NodeFacts(fnIn)

\* the bookmark moved over at least one sibling to a sibling two places on
C12_Witness ==
    /\ fnCall.op = "reorderBookmarks"
    /\ SameParentCall(IsBookmark)
    /\ IndexOf(SiblingsOf(fnIn, fnCall.activeId), fnCall.overId)
         >= IndexOf(SiblingsOf(fnIn, fnCall.activeId), fnCall.activeId) + 2
    /\ SiblingLists(fnOut, Null) = ExpectedAfterReorder
    /\ SiblingLists(fnOut, Null) # SiblingLists(fnIn, Null)

\* C13 (as claimed): reordering a folder over a folder inside a nested
\* parent puts the active folder at the index the other had in the parent's
\* children and leaves every other child, bookmarks included, in its
\* relative position.
C13_ReorderFoldersKeepsOtherChildren ==
    (/\ fnCall.op = "reorderFolders"
     /\ SameParentCall(IsFolder)
     /\ fnCall.activeId # fnCall.overId
     /\ OwnerOf(fnIn, fnCall.activeId) # Null) =>
        /\ SiblingLists(fnOut, Null) = ExpectedAfterReorder
        /\ NodeFacts(fnOut) = NodeFacts(fnIn)

\* C14: a reorder request with an id that is not in the forest, or with two
\* nodes of different parents, returns the array it was given.
C14_ReorderMismatchSameReference ==
    (/\ fnCall.op \in {"reorderBookmarks", "reorderFolders"}
     /\ \/ fnCall.activeId \notin IdsOf(fnIn)
        \/ fnCall.overId \notin IdsOf(fnIn)
        \/ OwnerOf(fnIn, fnCall.activeId) # OwnerOf(fnIn, fnCall.overId))
        => fnOut = fnIn

\* a bookmark reorder was asked for two nodes of different folders
C14_Witness ==
    /\ fnCall.op = "reorderBookmarks"
    /\ fnCall.activeId \in IdsOf(fnIn)
    /\ fnCall.overId \in IdsOf(fnIn)
    /\ OwnerOf(fnIn, fnCall.activeId) # OwnerOf(fnIn, fnCall.overId)
    /\ OwnerOf(fnIn, fnCall.activeId) # Null
    /\ OwnerOf(fnIn, fnCall.overId) # Null
    /\ fnOut = fnIn

-----------------------------------------------------------------------------
(* C15, C20 *)

BookmarksOf(nodes) == {n \in Range(PreOrder(nodes)) : ~n.children.def}

FoldersOf(nodes) == {n \in Range(PreOrder(nodes)) : n.children.def}

\* C15: remove-duplicates with the set of findDuplicateUrls takes out every
\* bookmark of the set at every depth and no folder; what stays keeps its
\* parent, its order among the siblings that stay, and its fields.
C15_RemoveDuplicatesRemovesExactlyTheSet ==
    fnCall.op = "removeDuplicates" =>
        LET dup == findDuplicateUrls(fnCall.nodes)
        IN  /\ IdsOf(fnOut) = IdsOf(fnCall.nodes) \ dup
            /\ {n.id : n \in FoldersOf(fnCall.nodes)} \subseteq IdsOf(fnOut)
            /\ SiblingLists(fnOut, Null) =
                   {<<m[1], Without(m[2], dup)>> :
                       m \in SiblingLists(fnCall.nodes, Null)}
            /\ NodeFacts(fnOut) =
                   {<<n.id, n.title, n.url, n.parentId, n.children.def>> :
                       n \in {x \in Range(PreOrder(fnCall.nodes)) :
                                 x.id \notin dup}}

\* duplicates were removed inside a folder while a bookmark with a url of
\* its own stayed in the same folder
C15_Witness ==
    /\ fnCall.op = "removeDuplicates"
    /\ \E n \in BookmarksOf(fnCall.nodes) :
          /\ n.parentId # Null
          /\ n.id \in findDuplicateUrls(fnCall.nodes)
          /\ n.id \notin IdsOf(fnOut)
          /\ \E k \in BookmarksOf(fnOut) :
                 k.parentId = n.parentId /\ k.id \in IdsOf(fnCall.nodes)

-----------------------------------------------------------------------------
(* C16 *)

\* C16: with fresh ids from the generator, no two nodes of the forest have
\* the same id, whatever sequence of imports, additions, moves, reorders,
\* renames, deletions and duplicate removals led to it.
C16_IdsAreUnique ==
    Len(PreOrder(bookmarks)) = Cardinality(IdsOf(bookmarks))

\* a drag has just moved a node to another parent, and it is there once
C16_Witness ==
    /\ last.op = "dragEnd"
    /\ last.activeId \in IdsOf(bookmarks)
    /\ OwnerOf(bookmarks, last.activeId) # last.from
    /\ Len(NodesWithId(bookmarks, last.activeId)) = 1
    /\ Len(PreOrder(bookmarks)) >= 2

-----------------------------------------------------------------------------
(* C17 *)

\* C17 (as claimed): every node of the forest is either a bookmark, with a
\* non-empty url and no children sequence, or a folder, with a children
\* sequence and no url.
C17_EveryNodeIsBookmarkOrFolder ==
    \A n \in Range(PreOrder(bookmarks)) :
        \/ Truthy(n.url) /\ ~n.children.def
        \/ n.children.def /\ n.url = UndefinedStr

-----------------------------------------------------------------------------
(* C18, C19 *)

\* the query occurs, letter case aside, in the title of the node or, for a
\* bookmark, in its url
NodeMatches(n, query) ==
    \/ includes(toLowerCase(n.title), toLowerCase(query))
    \/ /\ ~n.children.def
       /\ n.url # UndefinedStr
       /\ includes(toLowerCase(n.url), toLowerCase(query))

\* the ids the filter has to retain: the nodes that match and the folders
\* above them
RetainedIds(nodes, query) ==
    {n.id : n \in {x \in Range(PreOrder(nodes)) :
        \/ NodeMatches(x, query)
        \/ /\ x.children.def
           /\ \E y \in Range(PreOrder(x.children)) : NodeMatches(y, query)}}

C19_MatchingFolderIdsAreRetainedFolders ==
    (fnCall.op = "filter" /\ fnCall.query # <<>>) =>
        fnOut.matchingFolderIds =
            {n.id : n \in {x \in Range(PreOrder(fnOut.filteredNodes)) :
                              x.children.def}}

\* a nested folder is retained and reported while another folder is dropped
C19_Witness ==
    /\ fnCall.op = "filter"
    /\ fnCall.query # <<>>
    /\ \E n \in Range(PreOrder(fnOut.filteredNodes)) :
          n.children.def /\ n.parentId # Null
             /\ n.id \in fnOut.matchingFolderIds
    /\ \E n \in Range(PreOrder(fnIn)) :
          n.children.def /\ n.id \notin fnOut.matchingFolderIds

-----------------------------------------------------------------------------
(* C21, C30 *)

\* C21 (as claimed): a document with one more item than MAX_BOOKMARKS and
\* nothing else makes the parser throw, wherever the extra item lies,
\* whether the document is the one a browser writes or the one the exporter
\* writes; a document with exactly MAX_BOOKMARKS items parses.
C21_OneItemTooManyThrows ==
    (\/ fnCall.op = "parse" /\ fnCall.extra = <<>>
     \/ fnCall.op = "roundTrip") =>
        /\ Len(PreOrder(fnIn)) = MAX_BOOKMARKS + 1 => fnOut.thrown
        /\ Len(PreOrder(fnIn)) = MAX_BOOKMARKS => ~fnOut.thrown

\* C21 for the documents a browser writes only
C21_BrowserDocumentLimit ==
    (fnCall.op = "parse" /\ fnCall.extra = <<>>) =>
        /\ Len(PreOrder(fnIn)) = MAX_BOOKMARKS + 1 => fnOut.thrown
        /\ Len(PreOrder(fnIn)) = MAX_BOOKMARKS =>
              ~fnOut.thrown /\ Len(PreOrder(fnOut.nodes)) = MAX_BOOKMARKS

\* C30 (as claimed): a document with at most MAX_BOOKMARKS recognized items
\* parses, wherever an unrecognized <DT> stands in it.
C30_UnrecognizedEntriesDoNotCount ==
    (/\ fnCall.op = "parse"
     /\ fnCall.extra # <<>>
     /\ Len(PreOrder(fnIn)) <= MAX_BOOKMARKS) => ~fnOut.thrown

-----------------------------------------------------------------------------
(* C22 *)

\* the entity of each character the serializer escapes
EntityOf(c) ==
    CASE c = "&" -> <<"&", "a", "m", "p", ";">>
      [] c = "<" -> <<"&", "l", "t", ";">>
      [] c = ">" -> <<"&", "g", "t", ";">>
      [] c = "\"" -> <<"&", "q", "u", "o", "t", ";">>
      [] c = "'" -> <<"&", "#", "0", "3", "9", ";">>
      [] OTHER -> <<c>>

\* C22: the serializer writes each of & < > " ' as its entity, once, and
\* the import of the exported text gives back the title and the url as they
\* were; the titles of the top level of an exported forest come back too.
C22_EscapeRoundTrips ==
    /\ fnCall.op = "escape" =>
          /\ fnOut.escaped =
                 Flat([i \in 1..Len(fnCall.str) |-> EntityOf(fnCall.str[i])])
          /\ ~fnOut.parsed.thrown
          /\ Len(fnOut.parsed.nodes.items) = 1
          /\ fnOut.parsed.nodes.items[1].title = fnCall.str
          /\ fnOut.parsed.nodes.items[1].url = fnCall.str
    /\ (fnCall.op = "roundTrip" /\ ~fnOut.thrown) =>
          /\ Len(fnOut.nodes.items) = Len(fnIn.items)
          /\ \A i \in 1..Len(fnIn.items) :
                 fnOut.nodes.items[i].title = fnIn.items[i].title

\* a title that holds an escaped character and the text of an entity came
\* back as it was
C22_Witness ==
    /\ fnCall.op = "escape"
    /\ fnCall.str = <<"&", "l", "t", ";">>
    /\ fnOut.escaped = <<"&", "a", "m", "p", ";", "l", "t", ";">>
    /\ fnOut.parsed.nodes.items[1].title = fnCall.str

-----------------------------------------------------------------------------
(* C23, C29 *)

\* C23: every saveBookmarks call is given the forest of the moment, the
\* pending timeout is always the one of the latest render (an older one
\* never runs), and once the user stops the latest forest is saved and the
\* App is not loading.
C23_LatestForestEventuallySaved ==
    /\ [](last.op = "save" => last.latest)
    /\ [](timeoutRef.set =>
            /\ timeoutRef.bookmarks = Cur
            /\ timeoutRef.isLoading = isLoading
            /\ timeoutRef.isInitialLoad = isInitialLoad)
    /\ (<>[][~UserStep]_vars) => <>[](~isLoading /\ saved = Cur)

\* a forest of two additions made in a row was saved, by the first save of
\* the run
C23_Witness ==
    /\ last.op = "save"
    /\ Len(Cur.items) + Len(PreOrder(Cur)) >= 3
    /\ saved = Cur
    /\ stored = NoValue
    /\ saving = <<Cur>>

\* C29: saveBookmarks is never called while isInitialLoad or isLoading is
\* true.
C29_NoSaveWhileLoading ==
    last.op = "save" => ~last.isLoading /\ ~last.isInitialLoad

\* the timeout fired while an import was being parsed, and nothing was
\* written
C29_Witness ==
    /\ last.op = "skip"
    /\ isLoading
    /\ upload # NoFile
    /\ Cur.items = <<>>
    /\ saving = <<>>

-----------------------------------------------------------------------------
(* C24 *)

\* C24: loadBookmarks never rejects and resolves to an empty forest when
\* nothing is stored or when the read fails, and a step in which a db.put
\* settles, written or failed, leaves the forest in memory as it was.
C24_PersistenceFailuresRecoverable ==
    /\ [](last.op = "load" =>
            /\ ~last.rejected
            /\ (~last.readOk \/ ~last.found) => Cur.items = <<>>)
    /\ [][Len(saving') < Len(saving) => bookmarks' = bookmarks]_vars

\* the save of a forest with nodes failed: no put is pending, the store does
\* not hold the forest that was saved, and the forest is still in memory
C24_Witness ==
    /\ saving = <<>>
    /\ saved # NoValue
    /\ stored # saved
    /\ Cur = saved
    /\ Cur.items # <<>>

\* the read of a store that holds a forest failed, and the App shows an
\* empty forest
C24_WitnessFailedLoad ==
    /\ last.op = "load"
    /\ ~last.readOk
    /\ last.found
    /\ Cur.items = <<>>
    /\ ~isLoading

-----------------------------------------------------------------------------
(* C25 *)

\* C25 (as claimed): a drag-and-drop move of a folder row onto a folder of
\* the forest or onto the root leaves the set of node ids of the forest as
\* it was: nothing inside the moved folder is lost.
C25_FolderMoveKeepsSubtree ==
    (/\ fnCall.op = "dragEnd"
     /\ fnCall.active.type = "folder"
     /\ \/ fnCall.over.id = ROOT_FOLDER_DROP_ID
        \/ fnCall.over.type = "folder" /\ fnCall.over.id \in IdsOf(fnIn))
        => IdsOf(fnOut) = IdsOf(fnIn)

-----------------------------------------------------------------------------
(* C26 *)

\* C26 (as claimed): after remove-duplicates every url that a bookmark of
\* the forest carried is still carried by a bookmark of the forest.
C26_RemoveDuplicatesKeepsOneCopy ==
    fnCall.op = "removeDuplicates" =>
        \A b \in BookmarksOf(fnCall.nodes) :
            (b.url # UndefinedStr /\ Truthy(b.url)) =>
                \E c \in BookmarksOf(fnOut) : c.url = b.url

-----------------------------------------------------------------------------
(* C27 *)

\* the text of the <A> and <H3> elements of a document, in document order
EntryTexts(tokens) ==
    LET at == SelectSeq([i \in 1..Len(tokens) |-> i],
                  LAMBDA i : /\ i > 1
                             /\ tokens[i].t = "text"
                             /\ tokens[i - 1].t = "start"
                             /\ tokens[i - 1].tag \in {"A", "H3"})
    IN  [k \in 1..Len(at) |-> tokens[at[k]].s]

\* C27 (as claimed): the document generateBookmarkHtml writes for the forest
\* of the App holds one entry per node of the forest, in depth-first
\* pre-order.
C27_ExportHasOneEntryPerNode ==
    EntryTexts(generateBookmarkHtml(Cur)) =
        [k \in 1..Len(PreOrder(Cur)) |-> escapeHtml(PreOrder(Cur)[k].title)]

-----------------------------------------------------------------------------
(* C28 *)

\* C28 (as claimed): once handleFinishEditing has run for the node in edit
\* mode, on Enter, on Escape or on blur, editingNodeId eventually is null.
C28_FinishingLeavesEditMode ==
    (last.op = "finishEditing") ~> (editingNodeId = Null)

====
